---- MODULE Spec2Model ----
(***************************************************************************)
(* A model of mkavl, the multi-key AVL tree of matthewjmiller1/mkavl.      *)
(*                                                                         *)
(* One mkavl tree is modelled: M AVL trees (avl_tree_array) over the same  *)
(* caller-owned items, the item_count, and the record of the last API call *)
(* with the state it started from.  Items are caller objects identified by *)
(* their address (1..NumObjects, NULL = 0) carrying an id (the uint32_t of *)
(* test_mkavl.c, the employee id of employee_example.c) and a last_name    *)
(* that the caller may change while the item is out of the indices that    *)
(* read it.                                                                *)
(*                                                                         *)
(* Spec          any sequence of calls, the re-keying of an item among     *)
(*               them, or the unit test's mkavl_test_add and               *)
(*               mkavl_test_remove;                                        *)
(* SpecAggregate mkavl_add and mkavl_remove only;                          *)
(* SpecFind      lookups on steady-state trees of every AVL shape.         *)
(*                                                                         *)
(* libavl (libavl/avl.c) is not part of the modelled sources; its          *)
(* operations are modelled as the ordering primitive of the specification: *)
(* a search tree without duplicates under its comparator.                  *)
(***************************************************************************)
EXTENDS Integers, Sequences, FiniteSets, TLC

(* ------------------------------ bounds --------------------------------- *)

\* Number of caller objects (addresses) handed to the tree where the
\* single-index calls are made.
NumItems == 3

\* Number of distinct last names.
NumNames == 2

\* Cap on item_count: calls that would count past it are not issued.
MaxCount == 3

\* node_cnt of the unit test: the length of insert_seq and delete_seq.
NodeCnt == 3

\* Number of caller objects in all; all of them are handed to the tree
\* where only aggregate calls or only lookups are made.
NumObjects == 7

(* ----------------------------- constants ------------------------------- *)

NULL == 0

Items == 1 .. NumItems

AllItems == 1 .. NumObjects

\* The object whose last name the caller changes (one employee, as in
\* run_employee_example).
RenamedItems == {1}

Names == 1 .. NumNames

\* mkavl_rc_e
MKAVL_RC_E_SUCCESS == "MKAVL_RC_E_SUCCESS"

MKAVL_RC_E_EINVAL == "MKAVL_RC_E_EINVAL"

MKAVL_RC_E_EOOSYNC == "MKAVL_RC_E_EOOSYNC"

MKAVL_RC_E_ENOMEM == "MKAVL_RC_E_ENOMEM"

\* The outcome of a call that ended in abort() instead of returning.
ABORTED == "abort"

\* mkavl_find_type_e, the valid lookup types
FindTypes == {"EQUAL", "GT", "LT", "GE", "LE"}

\* The comparator arrays given to mkavl_new: one comparator, the two of the
\* unit test, the two of the employee example, and three comparators.
CompareFnArrays ==
    { << "mkavl_cmp_fn1" >>,
      << "mkavl_cmp_fn1", "mkavl_cmp_fn2" >>,
      << "employee_cmp_by_id", "employee_cmp_by_last_name" >>,
      << "mkavl_cmp_fn1", "mkavl_cmp_fn2", "employee_cmp_by_id" >> }

\* The id of the object at address p: objects 1 and 2 carry id 1, objects
\* 3 and 4 carry id 2, ... (two objects with one id are duplicate keys).
ItemId(p) == (p + 1) \div 2

VARIABLES
    compare_fn_array,   \* the comparators of the tree, in key index order
    last_name,          \* last_name[p]: the last name of object p
    avl_tree_array,     \* avl_tree_array[i]: the items held by AVL tree i
    item_count,         \* tree_h->item_count
    last,               \* the last API call: arguments, result, prior state
    test                \* the unit test: its input, position and counters

vars == << compare_fn_array, last_name, avl_tree_array, item_count, last,
           test >>

\* tree_h->avl_tree_count
avl_tree_count == Len(compare_fn_array)

KeyIdxs == 0 .. (avl_tree_count - 1)

(* ---------------------------- comparators ------------------------------ *)

\* a three-way comparison of two integers
ThreeWay(x, y) == IF x < y THEN -1 ELSE IF x > y THEN 1 ELSE 0

mkavl_cmp_fn1(item1, item2) == ThreeWay(ItemId(item1), ItemId(item2))

mkavl_cmp_fn2(item1, item2) ==
    IF ItemId(item1) > ItemId(item2) THEN -1
    ELSE IF ItemId(item1) < ItemId(item2) THEN 1
    ELSE 0

employee_cmp_by_id(item1, item2) == ThreeWay(ItemId(item1), ItemId(item2))

employee_cmp_by_last_name(item1, item2) ==
    LET str_rc == ThreeWay(last_name[item1], last_name[item2])
    IN  IF str_rc # 0 THEN str_rc
        ELSE ThreeWay(ItemId(item1), ItemId(item2))

\* Whether a comparator reads the last_name field.
ReadsLastName(fn) == fn = "employee_cmp_by_last_name"

\* The comparison AVL tree key_idx makes: the wrapper looks up the
\* comparator of that index and applies it.
mkavl_compare_wrapper(key_idx, avl_a, avl_b) ==
    LET cmp_fn == compare_fn_array[key_idx + 1]
    IN  CASE cmp_fn = "mkavl_cmp_fn1" -> mkavl_cmp_fn1(avl_a, avl_b)
          [] cmp_fn = "mkavl_cmp_fn2" -> mkavl_cmp_fn2(avl_a, avl_b)
          [] cmp_fn = "employee_cmp_by_id" -> employee_cmp_by_id(avl_a, avl_b)
          [] cmp_fn = "employee_cmp_by_last_name" ->
                employee_cmp_by_last_name(avl_a, avl_b)

(* ----------------------- the ordering primitive ------------------------ *)

\* The item of the tree that compares equal to item, or NULL.
avl_find(tree, key_idx, item) ==
    IF \E e \in tree : mkavl_compare_wrapper(key_idx, e, item) = 0
    THEN CHOOSE e \in tree : mkavl_compare_wrapper(key_idx, e, item) = 0
    ELSE NULL

\* Insert: the equal item already in the tree is returned and the tree is
\* left alone, otherwise the item is inserted and NULL is returned.
avl_insert(tree, key_idx, item) ==
    LET e == avl_find(tree, key_idx, item)
    IN  IF e # NULL
        THEN [tree |-> tree, ret |-> e]
        ELSE [tree |-> tree \cup {item}, ret |-> NULL]

\* Delete: the equal item of the tree is removed and returned, or NULL.
avl_delete(tree, key_idx, item) ==
    LET e == avl_find(tree, key_idx, item)
    IN  IF e # NULL
        THEN [tree |-> tree \ {e}, ret |-> e]
        ELSE [tree |-> tree, ret |-> NULL]

(* ---------------------- mkavl_add / mkavl_remove ------------------------ *)

\* A loop bound that stops one AVL tree short.
mkavl_add_loop_continues_short(i) == i + 1 < avl_tree_count

\* mkavl_add: the condition of the loop over the AVL trees.
mkavl_add_loop_continues(i) == i < avl_tree_count

\* mkavl_add: the test that AVL tree i > 0 disagrees with AVL tree 0.
mkavl_add_is_mismatch(first_item, item) == first_item # item

\* mkavl_add: the number of AVL trees the error exit goes over.
mkavl_add_err_idx(i) == i + 1

\* A count incremented when the item was found, not when it was added.
mkavl_add_item_count_on_existing(first_item, count) ==
    IF first_item # NULL THEN count + 1 ELSE count

\* A count kept per AVL tree instead of per item.
mkavl_add_item_count_per_tree(first_item, count) ==
    IF first_item = NULL THEN count + avl_tree_count ELSE count

\* A count incremented by every mkavl_add that succeeds.
mkavl_add_item_count_always(first_item, count) == count + 1

\* mkavl_add: the item_count after the insertions agreed on first_item.
mkavl_add_item_count(first_item, count) ==
    IF first_item = NULL THEN count + 1 ELSE count

\* mkavl_add: the loop inserting item_to_add into AVL trees i, i+1, ...
RECURSIVE mkavl_add_loop(_, _, _, _)
mkavl_add_loop(i, trees, first_item, item_to_add) ==
    IF ~mkavl_add_loop_continues(i)
    THEN [trees |-> trees, first_item |-> first_item, err_idx |-> 0,
          rc |-> MKAVL_RC_E_SUCCESS]
    ELSE LET r == avl_insert(trees[i], i, item_to_add)
             inserted == [trees EXCEPT ![i] = r.tree]
         IN  IF i = 0
             THEN mkavl_add_loop(i + 1, inserted, r.ret, item_to_add)
             ELSE IF mkavl_add_is_mismatch(first_item, r.ret)
             THEN [trees |-> inserted, first_item |-> first_item,
                   err_idx |-> mkavl_add_err_idx(i),
                   rc |-> MKAVL_RC_E_EOOSYNC]
             ELSE mkavl_add_loop(i + 1, inserted, first_item, item_to_add)

\* mkavl_add: the err_exit loop over AVL trees i .. err_idx-1.
RECURSIVE mkavl_add_err_exit(_, _, _, _, _)
mkavl_add_err_exit(i, err_idx, trees, first_item, item_to_add) ==
    IF i >= err_idx
    THEN [trees |-> trees, aborted |-> FALSE]
    ELSE IF first_item = NULL
    THEN LET r == avl_delete(trees[i], i, item_to_add)
         IN  IF r.ret = NULL
             THEN [trees |-> trees, aborted |-> TRUE]
             ELSE mkavl_add_err_exit(i + 1, err_idx,
                                     [trees EXCEPT ![i] = r.tree],
                                     first_item, item_to_add)
    ELSE mkavl_add_err_exit(i + 1, err_idx, trees, first_item, item_to_add)

\* mkavl_add on a valid tree with non-null arguments.
mkavl_add(trees, count, item_to_add) ==
    LET l == mkavl_add_loop(0, trees, NULL, item_to_add)
    IN  IF l.rc = MKAVL_RC_E_SUCCESS
        THEN [trees |-> l.trees,
              item_count |-> mkavl_add_item_count(l.first_item, count),
              rc |-> MKAVL_RC_E_SUCCESS, out |-> l.first_item]
        ELSE LET e == mkavl_add_err_exit(0, l.err_idx, l.trees,
                                         l.first_item, item_to_add)
             IN  [trees |-> e.trees, item_count |-> count,
                  rc |-> IF e.aborted THEN ABORTED ELSE l.rc,
                  out |-> NULL]

\* mkavl_remove: the condition of the loop over the AVL trees.
mkavl_remove_loop_continues(i) == i < avl_tree_count

\* mkavl_remove: the test that AVL tree i > 0 disagrees with AVL tree 0.
mkavl_remove_is_mismatch(first_item, item) == first_item # item

\* mkavl_remove: the number of AVL trees the error exit goes over.
mkavl_remove_err_idx(i) == i + 1

\* A single-index insertion that counts the item it inserts.
mkavl_add_key_idx_counted(trees, count, key_idx, item_to_add) ==
    LET r == avl_insert(trees[key_idx], key_idx, item_to_add)
    IN  [trees |-> [trees EXCEPT ![key_idx] = r.tree],
         item_count |-> IF r.ret = NULL THEN count + 1 ELSE count,
         rc |-> MKAVL_RC_E_SUCCESS, out |-> r.ret]

\* A count that a removal leaves alone.
mkavl_remove_item_count_unchanged(count) == count

\* mkavl_remove: the item_count after the removals agreed on a found item.
mkavl_remove_item_count(count) == count - 1

\* mkavl_remove: the loop deleting item_to_remove from AVL trees i, i+1, ...
RECURSIVE mkavl_remove_loop(_, _, _, _)
mkavl_remove_loop(i, trees, first_item, item_to_remove) ==
    IF ~mkavl_remove_loop_continues(i)
    THEN [trees |-> trees, first_item |-> first_item, err_idx |-> 0,
          rc |-> MKAVL_RC_E_SUCCESS]
    ELSE LET r == avl_delete(trees[i], i, item_to_remove)
             deleted == [trees EXCEPT ![i] = r.tree]
         IN  IF i = 0
             THEN mkavl_remove_loop(i + 1, deleted, r.ret, item_to_remove)
             ELSE IF mkavl_remove_is_mismatch(first_item, r.ret)
             THEN [trees |-> deleted, first_item |-> first_item,
                   err_idx |-> mkavl_remove_err_idx(i),
                   rc |-> MKAVL_RC_E_EOOSYNC]
             ELSE mkavl_remove_loop(i + 1, deleted, first_item,
                                    item_to_remove)

\* mkavl_remove: the err_exit loop over AVL trees i .. err_idx-1.
RECURSIVE mkavl_remove_err_exit(_, _, _, _)
mkavl_remove_err_exit(i, err_idx, trees, first_item) ==
    IF i >= err_idx
    THEN [trees |-> trees, aborted |-> FALSE]
    ELSE IF first_item # NULL
    THEN LET r == avl_insert(trees[i], i, first_item)
         IN  IF r.ret # NULL
             THEN [trees |-> trees, aborted |-> TRUE]
             ELSE mkavl_remove_err_exit(i + 1, err_idx,
                                        [trees EXCEPT ![i] = r.tree],
                                        first_item)
    ELSE mkavl_remove_err_exit(i + 1, err_idx, trees, first_item)

\* mkavl_remove on a valid tree with non-null arguments.
mkavl_remove(trees, count, item_to_remove) ==
    LET l == mkavl_remove_loop(0, trees, NULL, item_to_remove)
        \* the check of item_count made once the AVL trees agreed
        zero == l.rc = MKAVL_RC_E_SUCCESS /\ l.first_item # NULL /\ count = 0
    IN  IF l.rc = MKAVL_RC_E_SUCCESS /\ ~zero
        THEN [trees |-> l.trees,
              item_count |-> IF l.first_item # NULL
                             THEN mkavl_remove_item_count(count)
                             ELSE count,
              rc |-> MKAVL_RC_E_SUCCESS, out |-> l.first_item]
        ELSE LET e == mkavl_remove_err_exit(0, l.err_idx, l.trees,
                                            l.first_item)
             IN  [trees |-> e.trees, item_count |-> count,
                  rc |-> IF e.aborted THEN ABORTED
                         ELSE MKAVL_RC_E_EOOSYNC,
                  out |-> NULL]

(* ----------------- mkavl_add_key_idx / mkavl_remove_key_idx ------------- *)

\* mkavl_add_key_idx on a valid tree, key_idx < avl_tree_count.
mkavl_add_key_idx(trees, count, key_idx, item_to_add) ==
    LET r == avl_insert(trees[key_idx], key_idx, item_to_add)
    IN  [trees |-> [trees EXCEPT ![key_idx] = r.tree], item_count |-> count,
         rc |-> MKAVL_RC_E_SUCCESS, out |-> r.ret]

\* A single-index removal that uncounts the item it removes.
mkavl_remove_key_idx_counted(trees, count, key_idx, item_to_remove) ==
    LET r == avl_delete(trees[key_idx], key_idx, item_to_remove)
    IN  [trees |-> [trees EXCEPT ![key_idx] = r.tree],
         item_count |-> IF r.ret # NULL THEN count - 1 ELSE count,
         rc |-> MKAVL_RC_E_SUCCESS, out |-> r.ret]

\* mkavl_remove_key_idx on a valid tree, key_idx < avl_tree_count.
mkavl_remove_key_idx(trees, count, key_idx, item_to_remove) ==
    LET r == avl_delete(trees[key_idx], key_idx, item_to_remove)
    IN  [trees |-> [trees EXCEPT ![key_idx] = r.tree], item_count |-> count,
         rc |-> MKAVL_RC_E_SUCCESS, out |-> r.ret]

\* mkavl_count on a valid tree.
mkavl_count == item_count

(* ------------------------ directional search --------------------------- *)

\* The null avl_node pointer.
NullNode == [avl_null |-> TRUE]

\* The items of a tree in ascending order of comparator key_idx.
RECURSIVE SortedItems(_, _)
SortedItems(tree, key_idx) ==
    IF tree = {} THEN << >>
    ELSE LET m == CHOOSE x \in tree :
                    \A y \in tree : mkavl_compare_wrapper(key_idx, x, y) <= 0
         IN  << m >> \o SortedItems(tree \ {m}, key_idx)

\* The height of the subtree rooted at a node.
RECURSIVE AvlHeight(_)
AvlHeight(node) ==
    IF node = NullNode THEN 0
    ELSE LET hl == AvlHeight(node.avl_link[1])
             hr == AvlHeight(node.avl_link[2])
         IN  1 + (IF hl > hr THEN hl ELSE hr)

\* Every height-balanced search tree over a sorted sequence of items: the
\* shapes the nodes of an AVL tree holding these items can have.
\* avl_link[1] is the C avl_link[0] (left), avl_link[2] is avl_link[1].
RECURSIVE AvlShapes(_)
AvlShapes(seq) ==
    IF seq = << >> THEN {NullNode}
    ELSE UNION { { [avl_data |-> seq[k], avl_link |-> << l, r >>] :
                     l \in AvlShapes(SubSeq(seq, 1, k - 1)),
                     r \in AvlShapes(SubSeq(seq, k + 1, Len(seq))) }
                 : k \in 1 .. Len(seq) }

IsBalanced(node) ==
    LET d == AvlHeight(node.avl_link[1]) - AvlHeight(node.avl_link[2])
    IN  d \in {-1, 0, 1}

RECURSIVE AllBalanced(_)
AllBalanced(node) ==
    \/ node = NullNode
    \/ /\ IsBalanced(node)
       /\ AllBalanced(node.avl_link[1])
       /\ AllBalanced(node.avl_link[2])

\* The roots (avl_root) AVL tree key_idx may have for its items.
AvlRoots(tree, key_idx) ==
    { n \in AvlShapes(SortedItems(tree, key_idx)) : AllBalanced(n) }

\* mkavl_avl_end_item: the item at the end of the subtree on the given
\* side (0 smallest, 1 largest), NULL for an empty subtree.
RECURSIVE mkavl_avl_end_item(_, _)
mkavl_avl_end_item(node, side) ==
    IF node = NullNode THEN NULL
    ELSE IF node.avl_link[side + 1] # NullNode
    THEN mkavl_avl_end_item(node.avl_link[side + 1], side)
    ELSE node.avl_data

mkavl_avl_first(node) == mkavl_avl_end_item(node, 0)

mkavl_avl_last(node) == mkavl_avl_end_item(node, 1)

\* mkavl_find_avl_lt: what to do with a node that compares equal.
mkavl_find_avl_lt_equal(node, find_equal_to) ==
    IF find_equal_to THEN node.avl_data
    ELSE mkavl_avl_last(node.avl_link[1])

\* On an equal node, the other end of the right subtree.
mkavl_find_avl_gt_equal_last(node, find_equal_to) ==
    IF find_equal_to THEN node.avl_data
    ELSE mkavl_avl_last(node.avl_link[2])

\* On an equal node, the item of the node whatever the caller asked for.
mkavl_find_avl_gt_equal_stays(node, find_equal_to) == node.avl_data

\* mkavl_find_avl_gt: what to do with a node that compares equal.
mkavl_find_avl_gt_equal(node, find_equal_to) ==
    IF find_equal_to THEN node.avl_data
    ELSE mkavl_avl_first(node.avl_link[2])

RECURSIVE mkavl_find_avl_lt(_, _, _, _)
mkavl_find_avl_lt(key_idx, node, find_equal_to, lookup_item) ==
    IF node = NullNode THEN NULL
    ELSE LET cmp_rc == mkavl_compare_wrapper(key_idx, node.avl_data,
                                             lookup_item)
         IN  IF cmp_rc < 0
             THEN LET found_item ==
                        mkavl_find_avl_lt(key_idx, node.avl_link[2],
                                          find_equal_to, lookup_item)
                  IN  IF found_item = NULL THEN node.avl_data
                      ELSE found_item
             ELSE IF cmp_rc > 0
             THEN mkavl_find_avl_lt(key_idx, node.avl_link[1],
                                    find_equal_to, lookup_item)
             ELSE mkavl_find_avl_lt_equal(node, find_equal_to)

RECURSIVE mkavl_find_avl_gt(_, _, _, _)
mkavl_find_avl_gt(key_idx, node, find_equal_to, lookup_item) ==
    IF node = NullNode THEN NULL
    ELSE LET cmp_rc == mkavl_compare_wrapper(key_idx, node.avl_data,
                                             lookup_item)
         IN  IF cmp_rc < 0
             THEN mkavl_find_avl_gt(key_idx, node.avl_link[2],
                                    find_equal_to, lookup_item)
             ELSE IF cmp_rc > 0
             THEN LET found_item ==
                        mkavl_find_avl_gt(key_idx, node.avl_link[1],
                                          find_equal_to, lookup_item)
                  IN  IF found_item = NULL THEN node.avl_data
                      ELSE found_item
             ELSE mkavl_find_avl_gt_equal(node, find_equal_to)

\* An exact-match lookup that is answered as a greater-or-equal lookup.
mkavl_find_equal_as_ge(trees, avl_root, type, key_idx, lookup_item) ==
    IF type \in {"EQUAL", "GE"}
    THEN mkavl_find_avl_gt(key_idx, avl_root, TRUE, lookup_item)
    ELSE IF type = "GT"
    THEN mkavl_find_avl_gt(key_idx, avl_root, FALSE, lookup_item)
    ELSE mkavl_find_avl_lt(key_idx, avl_root, type = "LE", lookup_item)

\* mkavl_find on a valid tree with a valid type, key_idx < avl_tree_count
\* and non-null arguments; avl_root is the root of AVL tree key_idx.
mkavl_find(trees, avl_root, type, key_idx, lookup_item) ==
    CASE type = "EQUAL" -> avl_find(trees[key_idx], key_idx, lookup_item)
      [] type = "GT" -> mkavl_find_avl_gt(key_idx, avl_root, FALSE,
                                          lookup_item)
      [] type = "GE" -> mkavl_find_avl_gt(key_idx, avl_root, TRUE,
                                          lookup_item)
      [] type = "LT" -> mkavl_find_avl_lt(key_idx, avl_root, FALSE,
                                          lookup_item)
      [] type = "LE" -> mkavl_find_avl_lt(key_idx, avl_root, TRUE,
                                          lookup_item)

(* ------------------- allocation and mkavl_delete ----------------------- *)

\* MKAVL_CTX_MAGIC and MKAVL_CTX_STALE, the values of allocator.magic.
MKAVL_CTX_MAGIC == "MKAVL_CTX_MAGIC"

MKAVL_CTX_STALE == "MKAVL_CTX_STALE"

\* The contexts a caller passes: none, or an object of its own.
Contexts == {NULL, 1}

\* The finalizers a caller passes to mkavl_delete: none, the unit test's,
\* or one that reports a failure for the items of id 1.
ItemFns == {"NULL", "mkavl_test_item_fn", "item_fn_notok"}

\* The context-teardown callbacks a caller passes: none, or the unit test's.
DeleteContextFns == {"NULL", "mkavl_test_delete_context"}

\* The return code of a finalizer applied to an item.
item_fn_rc(item_fn, item) ==
    IF item_fn = "item_fn_notok" /\ ItemId(item) = 1
    THEN MKAVL_RC_E_EINVAL
    ELSE MKAVL_RC_E_SUCCESS

\* mkavl_test_delete_context: a null context is refused.
mkavl_test_delete_context(context) ==
    IF context = NULL THEN MKAVL_RC_E_EINVAL ELSE MKAVL_RC_E_SUCCESS

\* A block of memory obtained through the allocator of the tree: the
\* aggregate, the index array, and per index the closure, the table of the
\* AVL tree and one node per stored item.
Block(kind, key_idx, item) ==
    [kind |-> kind, key_idx |-> key_idx, item |-> item]

NoBlock == Block("", 0, NULL)

\* The calls a function makes to the allocator and to the callbacks of the
\* caller, in the order it makes them.  The call of a finalizer carries the
\* AVL trees as they are when it is made.
Event(fn, block, item, context, trees) ==
    [fn |-> fn, block |-> block, item |-> item, context |-> context,
     trees |-> trees]

MallocEvent(block) == Event("malloc_fn", block, NULL, NULL, << >>)

FreeEvent(block) == Event("free_fn", block, NULL, NULL, << >>)

\* mkavl_free_wrapper: the free of libavl reaches free_fn only while the
\* allocator of the tree is valid.
mkavl_free_wrapper(magic, block) ==
    IF magic # MKAVL_CTX_MAGIC THEN << >> ELSE << FreeEvent(block) >>

\* The first item of a tree in the order of its comparator, or NULL.
avl_t_first(tree, key_idx) ==
    IF tree = {} THEN NULL ELSE SortedItems(tree, key_idx)[1]

\* avl_destroy without an item function: the nodes k, k+1, ... of the
\* items are freed through the allocator the table was created with.
RECURSIVE avl_destroy_nodes(_, _, _, _)
avl_destroy_nodes(seq, k, key_idx, magic) ==
    IF k > Len(seq) THEN << >>
    ELSE mkavl_free_wrapper(magic, Block("avl_node", key_idx, seq[k]))
         \o avl_destroy_nodes(seq, k + 1, key_idx, magic)

\* avl_destroy without an item function: every node and then the table are
\* freed through the allocator the table was created with.
avl_destroy(tree, key_idx, table, magic) ==
    avl_destroy_nodes(SortedItems(tree, key_idx), 1, key_idx, magic)
    \o mkavl_free_wrapper(magic, table)

\* mkavl_delete_tree: the magic of the allocator once the tree is known to
\* be non-null.
mkavl_delete_tree_magic == MKAVL_CTX_STALE

\* mkavl_delete_tree: the loop over the AVL trees i, i+1, ...; tables[i]
\* is the table avl_tree_array[i].tree points to (NoBlock for NULL) and
\* closures are the indices whose avl_ctx is non-null.
RECURSIVE mkavl_delete_tree_loop(_, _, _, _, _)
mkavl_delete_tree_loop(i, count, trees, tables, closures) ==
    IF i >= count THEN << >>
    ELSE (IF tables[i] # NoBlock
          THEN (IF i \in closures
                THEN << FreeEvent(Block("avl_ctx", i, NULL)) >>
                ELSE << >>)
               \o avl_destroy(trees[i], i, tables[i], mkavl_delete_tree_magic)
          ELSE << >>)
         \o mkavl_delete_tree_loop(i + 1, count, trees, tables, closures)

\* mkavl_delete_tree on a non-null tree: the calls of free_fn it makes.
mkavl_delete_tree(count, has_array, trees, tables, closures) ==
    (IF has_array
     THEN mkavl_delete_tree_loop(0, count, trees, tables, closures)
          \o << FreeEvent(Block("avl_tree_array", 0, NULL)) >>
     ELSE << >>)
    \o << FreeEvent(Block("mkavl_tree_st", 0, NULL)) >>

(* ------------------------------ mkavl_new ------------------------------ *)

\* The blocks a sequence of calls obtained, and the blocks it released.
Allocated(events) ==
    { events[k].block : k \in { n \in 1 .. Len(events) :
                                  events[n].fn = "malloc_fn" } }

Freed(events) ==
    { events[k].block : k \in { n \in 1 .. Len(events) :
                                  events[n].fn = "free_fn" } }

\* The nodes of the AVL trees: one per item an AVL tree holds.
NodeBlocks(trees) ==
    UNION { { Block("avl_node", i, e) : e \in trees[i] } : i \in DOMAIN trees }

\* mkavl_new: the n-th block it asks malloc_fn for: the aggregate, the
\* index array, then per index the closure and the table of avl_create.
mkavl_new_block(n) ==
    IF n = 1 THEN Block("mkavl_tree_st", 0, NULL)
    ELSE IF n = 2 THEN Block("avl_tree_array", 0, NULL)
    ELSE IF n % 2 = 1 THEN Block("avl_ctx", (n - 3) \div 2, NULL)
    ELSE Block("avl_table", (n - 4) \div 2, NULL)

\* mkavl_new with a non-empty array of non-null comparators, when the
\* fail_at-th call of malloc_fn returns NULL (no call fails for 0).
\* avl_ctx_uninit is what the local avl_ctx holds while it is unassigned:
\* TRUE for a non-null value.
mkavl_new(fns, fail_at, avl_ctx_uninit) ==
    LET count == Len(fns)
        total == 2 + 2 * count
        failed == fail_at \in 1 .. total
        got == IF failed THEN fail_at - 1 ELSE total
        mallocs == [n \in 1 .. got |-> MallocEvent(mkavl_new_block(n))]
        closures == { i \in 0 .. (count - 1) : 2 * i + 4 <= got }
        tables == [i \in 0 .. (count - 1) |->
                     IF i \in closures THEN mkavl_new_block(2 * i + 4)
                     ELSE NoBlock]
        empty == [i \in 0 .. (count - 1) |-> {}]
        \* err_exit: the avl_ctx whose ownership was not transferred
        pending ==
            IF fail_at \in {1, 2}
            THEN (IF avl_ctx_uninit
                  THEN << FreeEvent(Block("uninitialized", 0, NULL)) >>
                  ELSE << >>)
            ELSE IF fail_at % 2 = 0
            THEN << FreeEvent(Block("avl_ctx", (fail_at - 4) \div 2, NULL)) >>
            ELSE << >>
        err_exit ==
            (IF got >= 1
             THEN mkavl_delete_tree(count, got >= 2, empty, tables, closures)
             ELSE << >>) \o pending
        events == IF failed THEN mallocs \o err_exit ELSE mallocs
    IN  [rc |-> IF failed THEN MKAVL_RC_E_ENOMEM ELSE MKAVL_RC_E_SUCCESS,
         events |-> events,
         heap |-> Allocated(events) \ Freed(events)]

\* mkavl_new: the check of its arguments; tree_h is the handle-out pointer,
\* here whether it is non-null, and likewise the comparator array.
mkavl_new_args_invalid(has_tree_h, has_compare_fn_array, count) ==
    ~has_tree_h \/ ~has_compare_fn_array \/ count = 0

\* mkavl_new when entry null_fn of the comparator array is NULL (the first
\* such entry): the first loop leaves for err_exit with the entries after
\* it unassigned, and mkavl_delete_tree reads them; uninit is what
\* unassigned memory holds: TRUE for non-null values.
mkavl_new_null_fn(fns, null_fn, uninit) ==
    LET count == Len(fns)
        mallocs == << MallocEvent(mkavl_new_block(1)),
                      MallocEvent(mkavl_new_block(2)) >>
        unassigned == [n \in 1 .. (count - 1 - null_fn) |->
                          FreeEvent(Block("uninitialized", null_fn + n, NULL))]
        events == mallocs
                  \o (IF uninit THEN unassigned ELSE << >>)
                  \o << FreeEvent(mkavl_new_block(2)),
                        FreeEvent(mkavl_new_block(1)) >>
                  \o (IF uninit
                      THEN << FreeEvent(Block("uninitialized", 0, NULL)) >>
                      ELSE << >>)
    IN  [rc |-> MKAVL_RC_E_ENOMEM, events |-> events,
         heap |-> Allocated(events) \ Freed(events)]

\* The handle mkavl_new gives to a tree it made.
NewTreeHandle == 1

\* mkavl_new as the caller sees it: what it returns, the value of the
\* handle of the caller afterwards (tree_h is its value before), the calls
\* it made to the allocator and the blocks still allocated.  null_fn is the
\* first entry of the comparator array that is NULL, -1 for none.
mkavl_new_call(has_tree_h, tree_h, has_compare_fn_array, count, null_fn, fail_at, uninit) ==
    IF mkavl_new_args_invalid(has_tree_h, has_compare_fn_array, count)
    THEN [rc |-> MKAVL_RC_E_EINVAL, tree_h |-> tree_h, events |-> << >>,
          heap |-> {}]
    ELSE LET Made(n) == [rc |-> n.rc,
                         tree_h |-> IF n.rc = MKAVL_RC_E_SUCCESS
                                    THEN NewTreeHandle ELSE NULL,
                         events |-> n.events, heap |-> n.heap]
         IN  CHOOSE r \in { Made(n) :
                              n \in {IF fail_at \in {1, 2} \/ null_fn = -1
                                     THEN mkavl_new(compare_fn_array, fail_at,
                                                    uninit)
                                     ELSE mkavl_new_null_fn(compare_fn_array,
                                              null_fn, uninit)} } : TRUE

\* avl_tree_array[i].tree of a tree made by mkavl_new: the tables of
\* avl_create.
NewTables == [i \in KeyIdxs |-> mkavl_new_block(2 * i + 4)]

\* A removal whose result is never checked.
mkavl_delete_assert_skipped(item) == FALSE

\* mkavl_delete: the assertion on the item avl_delete returned fails.
mkavl_delete_assert_fails(item) == item = NULL

\* mkavl_delete: the loop deleting item_to_delete from AVL trees i, i+1, ...
RECURSIVE mkavl_delete_from(_, _, _)
mkavl_delete_from(i, trees, item_to_delete) ==
    IF i >= avl_tree_count
    THEN [trees |-> trees, aborted |-> FALSE, events |-> << >>]
    ELSE LET Deleted(r) ==
                 IF mkavl_delete_assert_fails(r.ret)
                 THEN [trees |-> trees, aborted |-> TRUE, events |-> << >>]
                 ELSE LET freed == IF r.ret = NULL THEN << >>
                                   ELSE mkavl_free_wrapper(MKAVL_CTX_MAGIC,
                                            Block("avl_node", i, r.ret))
                          rest == mkavl_delete_from(i + 1,
                                      [trees EXCEPT ![i] = r.tree],
                                      item_to_delete)
                      IN  [rest EXCEPT !.events = freed \o @]
         IN  CHOOSE d \in { Deleted(r) :
                              r \in {avl_delete(trees[i], i, item_to_delete)} } :
                 TRUE

\* A finalizer that is never called.
mkavl_delete_never_calls_item_fn(item_fn) == FALSE

\* mkavl_delete: whether the finalizer is called for a deleted item.
mkavl_delete_calls_item_fn(item_fn) == item_fn # "NULL"

\* A teardown that is skipped for a null context.
mkavl_delete_calls_context_fn_if_context(delete_context_fn, context) ==
    delete_context_fn # "NULL" /\ context # NULL

\* mkavl_delete: whether the context teardown is called.
mkavl_delete_calls_context_fn(delete_context_fn, context) ==
    delete_context_fn # "NULL"

\* A result that forgets an earlier failure.
mkavl_delete_retval_overwritten(retval, rc) == rc

\* mkavl_delete: the result kept after a callback returned rc.
mkavl_delete_retval(retval, rc) ==
    IF rc # MKAVL_RC_E_SUCCESS THEN rc ELSE retval

\* mkavl_delete: the loop taking the first item of AVL tree 0 until there
\* is none.
RECURSIVE mkavl_delete_loop(_, _, _, _, _, _)
mkavl_delete_loop(trees, count, item_fn, context, retval, events) ==
    LET item_to_delete == avl_t_first(trees[0], 0)
        called == mkavl_delete_calls_item_fn(item_fn)
        rc == item_fn_rc(item_fn, item_to_delete)
        Deleted(d) ==
            IF d.aborted
            THEN [trees |-> d.trees, item_count |-> count,
                  retval |-> retval, events |-> events \o d.events,
                  aborted |-> TRUE]
            ELSE mkavl_delete_loop(d.trees, count - 1, item_fn, context,
                     IF called THEN mkavl_delete_retval(retval, rc)
                     ELSE retval,
                     events \o d.events \o
                     (IF called
                      THEN << Event("item_fn", NoBlock, item_to_delete,
                                    context, d.trees) >>
                      ELSE << >>))
    IN  IF item_to_delete = NULL
        THEN [trees |-> trees, item_count |-> count, retval |-> retval,
              events |-> events, aborted |-> FALSE]
        ELSE CHOOSE l \in { Deleted(d) :
                              d \in {mkavl_delete_from(0, trees,
                                                       item_to_delete)} } :
                 TRUE

\* mkavl_delete on a valid tree: the AVL trees and item_count it leaves,
\* what it returns, and the calls it made.
mkavl_delete(trees, count, context, tables, item_fn, delete_context_fn) ==
    LET called == mkavl_delete_calls_context_fn(delete_context_fn, context)
        rc == mkavl_test_delete_context(context)
        Deleted(l) ==
            IF l.aborted
            THEN [trees |-> l.trees, item_count |-> l.item_count,
                  rc |-> ABORTED, events |-> l.events]
            ELSE [trees |-> [i \in KeyIdxs |-> {}],
                  item_count |-> l.item_count,
                  rc |-> IF called THEN mkavl_delete_retval(l.retval, rc)
                         ELSE l.retval,
                  events |->
                      l.events
                      \o (IF called
                          THEN << Event("delete_context_fn", NoBlock, NULL,
                                        context, << >>) >>
                          ELSE << >>)
                      \o mkavl_delete_tree(avl_tree_count, TRUE, l.trees,
                                           tables, KeyIdxs)]
    IN  CHOOSE r \in { Deleted(l) :
                          l \in {mkavl_delete_loop(trees, count, item_fn,
                                     context, MKAVL_RC_E_SUCCESS, << >>)} } :
            TRUE

(* ----------------------------- iterators ------------------------------- *)

\* The traverser of libavl inside an iterator is on an item of its AVL
\* tree or on none (NULL).  Each function below gives the item it returns,
\* which is also where it leaves the traverser.

\* The last item of a tree in the order of its comparator, or NULL.
avl_t_last(tree, key_idx) ==
    IF tree = {} THEN NULL
    ELSE SortedItems(tree, key_idx)[Cardinality(tree)]

\* The item of the tree equal to item, or NULL.
avl_t_find(tree, key_idx, item) == avl_find(tree, key_idx, item)

\* The position of an item of the tree in the order of its comparator.
PositionOf(tree, key_idx, item) ==
    CHOOSE k \in 1 .. Cardinality(tree) :
        SortedItems(tree, key_idx)[k] = item

\* The item after the traverser, the first item from no item, or NULL.
avl_t_next(tree, key_idx, avl_node) ==
    IF avl_node = NULL THEN avl_t_first(tree, key_idx)
    ELSE LET k == PositionOf(tree, key_idx, avl_node)
         IN  IF k = Cardinality(tree) THEN NULL
             ELSE SortedItems(tree, key_idx)[k + 1]

\* The item before the traverser, the last item from no item, or NULL.
avl_t_prev(tree, key_idx, avl_node) ==
    IF avl_node = NULL THEN avl_t_last(tree, key_idx)
    ELSE LET k == PositionOf(tree, key_idx, avl_node)
         IN  IF k = 1 THEN NULL
             ELSE SortedItems(tree, key_idx)[k - 1]

\* The item the traverser is on, or NULL.
avl_t_cur(avl_node) == avl_node

\* The outcome of a call on a valid iterator with a non-null out-pointer:
\* the return code, the item stored through the out-pointer, and the item
\* the traverser is left on.
IterResult(item, avl_node) ==
    [rc |-> MKAVL_RC_E_SUCCESS, item |-> item, avl_node |-> avl_node]

\* mkavl_iter_cur on a valid iterator bound to AVL tree key_idx.
mkavl_iter_cur(tree, key_idx, avl_node) ==
    IterResult(avl_t_cur(avl_node), avl_node)

\* mkavl_iter_first on a valid iterator bound to AVL tree key_idx.
mkavl_iter_first(tree, key_idx, avl_node) ==
    LET item == avl_t_first(tree, key_idx)
    IN  IterResult(item, item)

\* mkavl_iter_last on a valid iterator bound to AVL tree key_idx.
mkavl_iter_last(tree, key_idx, avl_node) ==
    LET item == avl_t_last(tree, key_idx)
    IN  IterResult(item, item)

\* A lookup that leaves the traverser where it was.
mkavl_iter_find_unmoved(tree, key_idx, avl_node, lookup_item) ==
    IterResult(avl_find(tree, key_idx, lookup_item), avl_node)

\* mkavl_iter_find on a valid iterator, with a non-null lookup_item.
mkavl_iter_find(tree, key_idx, avl_node, lookup_item) ==
    LET item == avl_t_find(tree, key_idx, lookup_item)
    IN  IterResult(item, item)

\* A step that returns the item the traverser is on and stays there.
mkavl_iter_next_unmoved(tree, key_idx, avl_node) ==
    IterResult(avl_node, avl_node)

\* mkavl_iter_next on a valid iterator bound to AVL tree key_idx.
mkavl_iter_next(tree, key_idx, avl_node) ==
    LET item == avl_t_next(tree, key_idx, avl_node)
    IN  IterResult(item, item)

\* A step backwards that goes forwards.
mkavl_iter_prev_forward(tree, key_idx, avl_node) ==
    IterResult(avl_t_next(tree, key_idx, avl_node),
               avl_t_next(tree, key_idx, avl_node))

\* mkavl_iter_prev on a valid iterator bound to AVL tree key_idx.
mkavl_iter_prev(tree, key_idx, avl_node) ==
    LET item == avl_t_prev(tree, key_idx, avl_node)
    IN  IterResult(item, item)

\* The items consecutive calls of mkavl_iter_next return from avl_node on,
\* up to and including the null that ends them.
RECURSIVE IterateFrom(_, _, _)
IterateFrom(tree, key_idx, avl_node) ==
    IF avl_node = NULL THEN << >>
    ELSE LET Rest(r) == << r.item >> \o IterateFrom(tree, key_idx, r.avl_node)
         IN  CHOOSE s \in { Rest(r) :
                              r \in {mkavl_iter_next(tree, key_idx,
                                                     avl_node)} } : TRUE

\* The items mkavl_iter_first and then mkavl_iter_next return until null.
Iterate(tree, key_idx) ==
    LET r == mkavl_iter_first(tree, key_idx, NULL)
    IN  << r.item >> \o IterateFrom(tree, key_idx, r.avl_node)

(* ------------------------------ mkavl_copy ----------------------------- *)

\* The copy functions a caller passes to mkavl_copy: none, the unit test's
\* (it returns the item itself), one that returns another object with the
\* same content, and one that fails (returns NULL) for the item of id 2.
CopyFns == {"NULL", "mkavl_test_copy_fn", "copy_fn_duplicate", "copy_fn_notok"}

\* The object with the same id as object p.
Twin(p) == IF p % 2 = 1 THEN p + 1 ELSE p - 1

\* What a copy function returns for an item.
copy_fn_item(copy_fn, item) ==
    CASE copy_fn = "mkavl_test_copy_fn" -> item
      [] copy_fn = "copy_fn_duplicate" -> Twin(item)
      [] copy_fn = "copy_fn_notok" -> IF ItemId(item) = 2 THEN NULL ELSE item

\* mkavl_copy_wrapper: the copy function stored in the tree of the closure
\* is applied to the item with the context of that tree.
mkavl_copy_wrapper(copy_fn, item, context) ==
    [item |-> copy_fn_item(copy_fn, item),
     events |-> << Event("copy_fn", NoBlock, item, context, << >>) >>]

\* The table avl_copy creates.
avl_copy_table == Block("avl_copy_table", 0, NULL)

\* avl_copy, the items k, k+1, ... of the source table: each is passed
\* through the copy function (none: the item itself is taken) and gets a
\* node of its own; when the copy function returns NULL the nodes made so
\* far and the table are released and there is no copy.
RECURSIVE avl_copy_nodes(_, _, _, _, _, _)
avl_copy_nodes(seq, k, copy_fn, context, tree, events) ==
    IF k > Len(seq)
    THEN [ok |-> TRUE, tree |-> tree, events |-> events]
    ELSE LET Copied(c) ==
                 IF c.item = NULL
                 THEN [ok |-> FALSE, tree |-> {},
                       events |-> events \o c.events
                           \o avl_destroy(tree, 0, avl_copy_table,
                                          MKAVL_CTX_MAGIC)]
                 ELSE avl_copy_nodes(seq, k + 1, copy_fn, context,
                          tree \cup {c.item},
                          events \o c.events
                          \o << MallocEvent(Block("avl_node", 0, c.item)) >>)
         IN  CHOOSE r \in { Copied(c) :
                              c \in {IF copy_fn = "NULL"
                                     THEN [item |-> seq[k], events |-> << >>]
                                     ELSE mkavl_copy_wrapper(copy_fn, seq[k],
                                                             context)} } :
                 TRUE

\* avl_copy of AVL tree 0 of the source into the allocator of the new tree;
\* no_table: the allocation of the table fails.
avl_copy(tree, copy_fn, context, no_table) ==
    IF no_table THEN [ok |-> FALSE, tree |-> {}, events |-> << >>]
    ELSE avl_copy_nodes(SortedItems(tree, 0), 1, copy_fn, context, {},
                        << MallocEvent(avl_copy_table) >>)

\* The closure mkavl_new allocates for AVL tree key_idx of the tree tree_h
\* and hands to avl_create as avl_param.
mkavl_avl_ctx(tree_h, key_idx) == [tree_h |-> tree_h, key_idx |-> key_idx]

\* avl_copy takes the table to copy, the copy function, the destroy
\* function and the allocator: the table it creates compares with the
\* comparison function and the avl_param of the table copied.
avl_copy_param(avl_param) == avl_param

\* mkavl_copy: the avl_param of the tables of the new tree.  Table 0 is the
\* one avl_copy made of table 0 of the source tree, the others are those
\* mkavl_new created for the new tree.
mkavl_copy_avl_params ==
    [i \in KeyIdxs |->
        IF i = 0 THEN avl_copy_param(mkavl_avl_ctx("source_tree_h", 0))
        ELSE mkavl_avl_ctx("local_tree_h", i)]

\* mkavl_compare_wrapper: the comparator of avl_ctx->key_idx is called with
\* the context of avl_ctx->tree_h.
mkavl_compare_context(avl_ctx, source_context, local_context) ==
    [key_idx |-> avl_ctx.key_idx,
     context |-> IF avl_ctx.tree_h = "source_tree_h" THEN source_context
                 ELSE local_context]

\* A copy that leaves the copy function of the caller in the source tree.
mkavl_copy_fn_left(old_copy_fn, copy_fn) == copy_fn

\* mkavl_copy: the copy_fn of the source tree when the call returns.  It
\* is set to the copy function of the caller for the time of avl_copy and
\* set back to what it was.
mkavl_copy_old_copy_fn(old_copy_fn, copy_fn) == old_copy_fn

\* mkavl_tree_is_valid of a non-null tree with a valid allocator, non-null
\* comparators and valid closures.
mkavl_tree_is_valid(tables) == \A i \in DOMAIN tables : tables[i] # NoBlock

\* A copy that counts no item.
mkavl_copy_item_count_zero(tree) == 0

\* mkavl_copy: the item_count of the new tree is avl_count of its AVL
\* tree 0.
mkavl_copy_item_count(tree) == Cardinality(tree)

\* mkavl_copy: the loop adding the items k, k+1, ... of the new AVL tree 0
\* to AVL trees i, i+1, ... and then 1, 2, ... of the new tree.
RECURSIVE mkavl_copy_add_loop(_, _, _, _, _)
mkavl_copy_add_loop(seq, k, i, trees, count) ==
    IF k > Len(seq) THEN [rc |-> MKAVL_RC_E_SUCCESS, trees |-> trees]
    ELSE IF i >= avl_tree_count
    THEN mkavl_copy_add_loop(seq, k + 1, 1, trees, count)
    ELSE LET Added(r) ==
                 IF r.rc # MKAVL_RC_E_SUCCESS
                 THEN [rc |-> r.rc, trees |-> r.trees]
                 ELSE mkavl_copy_add_loop(seq, k, i + 1, r.trees, count)
         IN  CHOOSE a \in { Added(r) :
                              r \in {mkavl_add_key_idx(trees, count, i,
                                                       seq[k])} } : TRUE

\* mkavl_copy: err_exit once mkavl_new has made the tree.  mkavl_delete
\* returns at once for a tree that is not valid.
mkavl_copy_err_exit(trees, count, context, tables, item_fn, use_source_context, delete_context_fn) ==
    IF mkavl_tree_is_valid(tables)
    THEN mkavl_delete(trees, count, context, tables, item_fn,
                      IF use_source_context THEN "NULL"
                      ELSE delete_context_fn).events
    ELSE << >>

\* The outcome of mkavl_copy: the return code, *new_tree_h, the AVL trees,
\* item_count and context of the new tree, the calls made, and the blocks
\* of the allocator of the new tree that are still allocated.
CopyResult(rc, new_tree_h, trees, count, context, events) ==
    [rc |-> rc, new_tree_h |-> new_tree_h, trees |-> trees,
     item_count |-> count, context |-> context, events |-> events,
     heap |-> (Allocated(events) \ Freed(events))
              \cup (IF new_tree_h = NULL THEN {} ELSE NodeBlocks(trees))]

\* mkavl_copy of a valid source tree into a non-null new_tree_h, when the
\* fail_at-th call of malloc_fn for the new tree returns NULL (the calls of
\* mkavl_new, then the table of avl_copy; no call fails for 0).
mkavl_copy(trees, source_context, copy_fn, item_fn, use_source_context, new_context, delete_context_fn, fail_at, avl_ctx_uninit) ==
    LET context_to_use == IF use_source_context THEN source_context
                          ELSE new_context
        empty == [i \in KeyIdxs |-> {}]
        total == 2 + 2 * avl_tree_count
        Finished(n, c) ==
            LET tables == [NewTables EXCEPT
                             ![0] = IF c.ok THEN avl_copy_table ELSE NoBlock]
                count == mkavl_copy_item_count(c.tree)
                a == mkavl_copy_add_loop(SortedItems(c.tree, 0), 1, 1,
                                         [empty EXCEPT ![0] = c.tree], count)
            IN  IF ~c.ok
                THEN CopyResult(n.rc, NULL, empty, 0, context_to_use,
                         n.events \o c.events
                         \o mkavl_copy_err_exit(empty, 0, context_to_use,
                                tables, item_fn, use_source_context,
                                delete_context_fn))
                ELSE IF a.rc # MKAVL_RC_E_SUCCESS
                THEN CopyResult(a.rc, NULL, empty, 0, context_to_use,
                         n.events \o c.events
                         \o mkavl_copy_err_exit(a.trees, count,
                                context_to_use, tables, item_fn,
                                use_source_context, delete_context_fn))
                ELSE CopyResult(MKAVL_RC_E_SUCCESS, 1, a.trees, count,
                                context_to_use, n.events \o c.events)
        Made(n) ==
            IF n.rc # MKAVL_RC_E_SUCCESS
            THEN CopyResult(n.rc, NULL, empty, 0, context_to_use, n.events)
            ELSE CHOOSE r \in { Finished(n, c) :
                                  c \in {avl_copy(trees[0], copy_fn,
                                                  source_context,
                                                  fail_at = total + 1)} } :
                     TRUE
    IN  CHOOSE r \in { Made(n) :
                         n \in {mkavl_new(compare_fn_array, fail_at,
                                          avl_ctx_uninit)} } : TRUE

(* ------------------------------ mkavl_walk ----------------------------- *)

\* The callback a caller passes to mkavl_walk, on its n-th call of a walk:
\* it sets the stop flag on call stop_at and returns a failure on call
\* notok_at (never, for 0).  The callback of the unit test is the one with
\* stop_at = walk_stop_cnt + 1 and notok_at = 0.
walk_cb_fn(n, stop_at, notok_at) ==
    [rc |-> IF n = notok_at THEN MKAVL_RC_E_EINVAL ELSE MKAVL_RC_E_SUCCESS,
     stop_walk |-> n = stop_at]

\* A call of the callback: the item, the context of the tree and the walk
\* context it is given.
WalkEvent(item, context, walk_context) ==
    [fn |-> "cb_fn", item |-> item, context |-> context,
     walk_context |-> walk_context]

\* A walk over the last AVL tree.
mkavl_walk_key_idx_last == avl_tree_count - 1

\* mkavl_walk: the AVL tree it walks.
mkavl_walk_key_idx == 0

\* A loop that goes on after the stop flag was set.
mkavl_walk_continues_past_stop(item, stop_walk) == item # NULL

\* mkavl_walk: the condition of its loop.
mkavl_walk_continues(item, stop_walk) == item # NULL /\ ~stop_walk

\* A loop that goes on after a failure.
mkavl_walk_never_breaks(rc) == FALSE

\* mkavl_walk: whether the loop is left after a call of the callback.
mkavl_walk_breaks(rc) == rc # MKAVL_RC_E_SUCCESS

\* mkavl_walk: the loop, from the item the traverser is on.
RECURSIVE mkavl_walk_loop(_, _, _, _, _, _, _, _, _)
mkavl_walk_loop(tree, item, stop_walk, rc, context, walk_context, stop_at, notok_at, events) ==
    IF ~mkavl_walk_continues(item, stop_walk)
    THEN [rc |-> rc, events |-> events]
    ELSE LET Called(cb) ==
                 IF mkavl_walk_breaks(cb.rc)
                 THEN [rc |-> cb.rc,
                       events |-> Append(events,
                                      WalkEvent(item, context, walk_context))]
                 ELSE mkavl_walk_loop(tree,
                          avl_t_next(tree, mkavl_walk_key_idx, item),
                          cb.stop_walk, cb.rc, context, walk_context,
                          stop_at, notok_at,
                          Append(events,
                                 WalkEvent(item, context, walk_context)))
         IN  CHOOSE r \in { Called(cb) :
                              cb \in {walk_cb_fn(Len(events) + 1, stop_at,
                                                 notok_at)} } : TRUE

\* mkavl_walk on a valid tree with a non-null callback: the return code and
\* the calls of the callback.
mkavl_walk(trees, context, walk_context, stop_at, notok_at) ==
    mkavl_walk_loop(trees[mkavl_walk_key_idx],
                    avl_t_first(trees[mkavl_walk_key_idx], mkavl_walk_key_idx),
                    FALSE, MKAVL_RC_E_SUCCESS, context, walk_context,
                    stop_at, notok_at, << >>)

(* ------------------- the argument checks of the calls ------------------ *)

\* A pointer to a variable of the caller is the one-element sequence of
\* the value the variable holds; NullPointer is the pointer that is null.
NullPointer == << >>

\* The value behind a pointer, null for the pointer that is null.
Deref(pointer) == IF pointer = NullPointer THEN NULL ELSE pointer[1]

\* Find types that are not lookups: the two ends of the enumeration, and a
\* value outside it.
InvalidFindTypes == {"INVALID", "MAX", "OUT_OF_RANGE"}

\* mkavl_find_type_e_is_valid: the ends of the enumeration are in range.
mkavl_find_type_e_is_valid(type) == type # "OUT_OF_RANGE"

\* A validity check that lets every handle through.
mkavl_tree_h_is_any(tree_h) == TRUE

\* mkavl_tree_is_valid on the handle of a caller: a null handle is not a
\* valid tree; the tree mkavl_new made is.
mkavl_tree_h_is_valid(tree_h) == tree_h # NULL

\* The outcome of a call: the return code, the variable behind the
\* out-pointer, and the tree.
ArgsResult(rc, out, trees, count) ==
    [rc |-> rc, out |-> out, trees |-> trees, item_count |-> count]

\* mkavl_add, from its first line.
mkavl_add_call(tree_h, trees, count, item_to_add, existing_item) ==
    IF item_to_add = NULL \/ existing_item = NullPointer
    THEN ArgsResult(MKAVL_RC_E_EINVAL, Deref(existing_item), trees, count)
    ELSE IF ~mkavl_tree_h_is_valid(tree_h)
    THEN ArgsResult(MKAVL_RC_E_EINVAL, NULL, trees, count)
    ELSE mkavl_add(trees, count, item_to_add)

\* mkavl_remove, from its first line.
mkavl_remove_call(tree_h, trees, count, item_to_remove, found_item) ==
    IF item_to_remove = NULL \/ found_item = NullPointer
    THEN ArgsResult(MKAVL_RC_E_EINVAL, Deref(found_item), trees, count)
    ELSE IF ~mkavl_tree_h_is_valid(tree_h)
    THEN ArgsResult(MKAVL_RC_E_EINVAL, NULL, trees, count)
    ELSE mkavl_remove(trees, count, item_to_remove)

\* mkavl_add_key_idx, from its first line.
mkavl_add_key_idx_call(tree_h, trees, count, key_idx, item, existing_item) ==
    IF item = NULL \/ existing_item = NullPointer
    THEN ArgsResult(MKAVL_RC_E_EINVAL, Deref(existing_item), trees, count)
    ELSE IF ~mkavl_tree_h_is_valid(tree_h) \/ key_idx >= avl_tree_count
    THEN ArgsResult(MKAVL_RC_E_EINVAL, NULL, trees, count)
    ELSE mkavl_add_key_idx(trees, count, key_idx, item)

\* mkavl_remove_key_idx, from its first line.
mkavl_remove_key_idx_call(tree_h, trees, count, key_idx, item, found_item) ==
    IF item = NULL \/ found_item = NullPointer
    THEN ArgsResult(MKAVL_RC_E_EINVAL, Deref(found_item), trees, count)
    ELSE IF ~mkavl_tree_h_is_valid(tree_h) \/ key_idx >= avl_tree_count
    THEN ArgsResult(MKAVL_RC_E_EINVAL, NULL, trees, count)
    ELSE mkavl_remove_key_idx(trees, count, key_idx, item)

\* mkavl_find, from its first line; avl_root is the root of AVL tree
\* key_idx when there is such a tree.
mkavl_find_call(tree_h, trees, count, avl_root, type, key_idx, item, out) ==
    IF item = NULL \/ out = NullPointer
    THEN ArgsResult(MKAVL_RC_E_EINVAL, Deref(out), trees, count)
    ELSE IF \/ ~mkavl_find_type_e_is_valid(type)
            \/ ~mkavl_tree_h_is_valid(tree_h)
            \/ key_idx >= avl_tree_count
            \/ type \notin FindTypes
    THEN ArgsResult(MKAVL_RC_E_EINVAL, NULL, trees, count)
    ELSE ArgsResult(MKAVL_RC_E_SUCCESS,
                    mkavl_find(trees, avl_root, type, key_idx, item),
                    trees, count)

\* mkavl_count.
mkavl_count_call(tree_h, count) ==
    IF ~mkavl_tree_h_is_valid(tree_h) THEN 0 ELSE count

\* mkavl_walk, from its first line; cb_fn is "NULL" for no callback.
mkavl_walk_call(tree_h, trees, context, cb_fn, walk_context, stop_at, notok_at) ==
    IF cb_fn = "NULL" \/ ~mkavl_tree_h_is_valid(tree_h)
    THEN [rc |-> MKAVL_RC_E_EINVAL, events |-> << >>]
    ELSE mkavl_walk(trees, context, walk_context, stop_at, notok_at)

\* mkavl_delete, from its first line; tree_h is the pointer to the handle,
\* and the outcome has the handle as the call leaves it.
mkavl_delete_call(tree_h, trees, count, context, tables, item_fn, context_fn) ==
    IF tree_h = NullPointer \/ ~mkavl_tree_h_is_valid(Deref(tree_h))
    THEN [rc |-> MKAVL_RC_E_EINVAL, trees |-> trees, item_count |-> count,
          events |-> << >>, tree_h |-> Deref(tree_h)]
    ELSE LET Outcome(d) ==
                 [rc |-> d.rc, trees |-> d.trees,
                  item_count |-> d.item_count, events |-> d.events,
                  tree_h |-> IF d.rc = ABORTED THEN Deref(tree_h) ELSE NULL]
         IN  CHOOSE r \in { Outcome(d) :
                               d \in {mkavl_delete(trees, count, context,
                                                   tables, item_fn,
                                                   context_fn)} } : TRUE

\* The handle of the iterator mkavl_iter_new makes.
NewIteratorHandle == 1

\* mkavl_iter_new; iterator_h is the pointer to the handle of the caller.
mkavl_iter_new_call(iterator_h, tree_h, key_idx, malloc_fails) ==
    IF \/ iterator_h = NullPointer
       \/ ~mkavl_tree_h_is_valid(tree_h)
       \/ key_idx >= avl_tree_count
    THEN [rc |-> MKAVL_RC_E_EINVAL, iterator_h |-> Deref(iterator_h)]
    ELSE IF malloc_fails
    THEN [rc |-> MKAVL_RC_E_ENOMEM, iterator_h |-> NULL]
    ELSE [rc |-> MKAVL_RC_E_SUCCESS, iterator_h |-> NewIteratorHandle]

\* What reading the tree of an iterator gives.  A live tree is valid.  A
\* destroyed tree is released memory: it still holds the stale magic
\* mkavl_delete_tree left there, or it has been given out again and reads
\* as a valid tree, or the read ends the program.
TreeReads == {"live", "stale", "valid", "crash"}

\* mkavl_iterator_is_valid, given what iterator_h->tree_h reads as.
mkavl_iterator_is_valid(iterator_h, tree_read) ==
    iterator_h # NULL /\ tree_read \in {"live", "valid"}

\* The calls that move or read the traverser of an iterator.
IterOps ==
    {"mkavl_iter_first", "mkavl_iter_last", "mkavl_iter_find",
     "mkavl_iter_next", "mkavl_iter_prev", "mkavl_iter_cur"}

\* mkavl_iter_first, _last, _find, _next, _prev and _cur, from their first
\* line: item is the out-pointer, tree the AVL tree the traverser is bound
\* to, as the memory holds it.
mkavl_iter_call(op, iterator_h, tree_read, tree, key_idx, avl_node, key, item) ==
    IF item = NullPointer \/ (op = "mkavl_iter_find" /\ key = NULL)
    THEN [rc |-> MKAVL_RC_E_EINVAL, item |-> Deref(item),
          avl_node |-> avl_node]
    ELSE IF iterator_h # NULL /\ tree_read = "crash"
    THEN [rc |-> ABORTED, item |-> NULL, avl_node |-> avl_node]
    ELSE IF ~mkavl_iterator_is_valid(iterator_h, tree_read)
    THEN [rc |-> MKAVL_RC_E_EINVAL, item |-> NULL, avl_node |-> avl_node]
    ELSE CASE op = "mkavl_iter_first" ->
                  mkavl_iter_first(tree, key_idx, avl_node)
           [] op = "mkavl_iter_last" ->
                  mkavl_iter_last(tree, key_idx, avl_node)
           [] op = "mkavl_iter_find" ->
                  mkavl_iter_find(tree, key_idx, avl_node, key)
           [] op = "mkavl_iter_next" ->
                  mkavl_iter_next(tree, key_idx, avl_node)
           [] op = "mkavl_iter_prev" ->
                  mkavl_iter_prev(tree, key_idx, avl_node)
           [] op = "mkavl_iter_cur" ->
                  mkavl_iter_cur(tree, key_idx, avl_node)

\* mkavl_iter_delete; iterator_h is the pointer to the handle of the caller.
mkavl_iter_delete_call(iterator_h, tree_read) ==
    IF iterator_h = NullPointer
    THEN [rc |-> MKAVL_RC_E_EINVAL, iterator_h |-> NULL]
    ELSE IF Deref(iterator_h) # NULL /\ tree_read = "crash"
    THEN [rc |-> ABORTED, iterator_h |-> Deref(iterator_h)]
    ELSE IF ~mkavl_iterator_is_valid(Deref(iterator_h), tree_read)
    THEN [rc |-> MKAVL_RC_E_EINVAL, iterator_h |-> Deref(iterator_h)]
    ELSE [rc |-> MKAVL_RC_E_SUCCESS, iterator_h |-> NULL]

(* ------------------------------ actions -------------------------------- *)

\* The record of an API call: its name and arguments, its return code and
\* out-parameter, and the AVL trees and item_count it started from.
Call(op, key_idx, type, item, rc, out) ==
    [op |-> op, key_idx |-> key_idx, type |-> type, item |-> item,
     rc |-> rc, out |-> out,
     trees |-> avl_tree_array, count |-> item_count]

\* The record of mkavl_new for a comparator array.
NewCall(fns) ==
    [op |-> "mkavl_new", key_idx |-> 0, type |-> "", item |-> NULL,
     rc |-> MKAVL_RC_E_SUCCESS, out |-> NULL,
     trees |-> [i \in 0 .. (Len(fns) - 1) |-> {}], count |-> 0]

\* The unit test is not running.
NoTest == [pc |-> "none"]

\* mkavl_new with one of the comparator arrays; no item is stored.  The
\* caller goes on to make any sequence of calls.
CallsInit ==
    /\ compare_fn_array \in CompareFnArrays
    /\ last_name = [p \in AllItems |-> 1]
    /\ avl_tree_array = [i \in 0 .. (Len(compare_fn_array) - 1) |-> {}]
    /\ item_count = 0
    /\ last = NewCall(compare_fn_array)
    /\ test = NoTest

\* Calls are made freely when the caller is neither the unit test nor in
\* the middle of re-keying an item, and none is made after a call that
\* aborted the process.
Running == test.pc \in {"none", "rekey_added"} /\ last.rc # ABORTED

\* The effect of a mutating call on the tree.
Apply(op, key_idx, item, r) ==
    /\ r.item_count <= MaxCount
    /\ avl_tree_array' = r.trees
    /\ item_count' = r.item_count
    /\ last' = Call(op, key_idx, "", item, r.rc, r.out)
    /\ UNCHANGED << compare_fn_array, last_name >>

Add(item) ==
    /\ Running
    /\ Apply("mkavl_add", 0, item, mkavl_add(avl_tree_array, item_count, item))
    /\ test' = NoTest

Remove(item) ==
    /\ Running
    /\ Apply("mkavl_remove", 0, item,
             mkavl_remove(avl_tree_array, item_count, item))
    /\ test' = NoTest

AddKeyIdx(key_idx, item) ==
    /\ Running
    /\ Apply("mkavl_add_key_idx", key_idx, item,
             mkavl_add_key_idx(avl_tree_array, item_count, key_idx, item))
    /\ test' = NoTest

RemoveKeyIdx(key_idx, item) ==
    /\ Running
    /\ Apply("mkavl_remove_key_idx", key_idx, item,
             mkavl_remove_key_idx(avl_tree_array, item_count, key_idx, item))
    /\ test' = NoTest

\* The caller changes the last name of an object.  As in the employee
\* example this is done only while no AVL tree ordered by last name holds it.
SetLastName(item, name) ==
    /\ Running
    /\ \E i \in KeyIdxs : ReadsLastName(compare_fn_array[i + 1])
    /\ \A i \in KeyIdxs : ReadsLastName(compare_fn_array[i + 1])
                            => item \notin avl_tree_array[i]
    /\ name # last_name[item]
    /\ last_name' = [last_name EXCEPT ![item] = name]
    /\ last' = Call("set_last_name", 0, "", item, MKAVL_RC_E_SUCCESS, NULL)
    /\ test' = NoTest
    /\ UNCHANGED << compare_fn_array, avl_tree_array, item_count >>

(* --- re-keying an item: remove_key_idx, change the key, add_key_idx ----- *)

\* Every AVL tree holds the same items.
SteadyState == \A i \in KeyIdxs : avl_tree_array[i] = avl_tree_array[0]

\* The Equal lookups of an item the caller makes through each index.
FoundByIdx(trees, item) ==
    [j \in KeyIdxs |->
        mkavl_find(trees, CHOOSE n \in AvlRoots(trees[j], j) : TRUE,
                   "EQUAL", j, item)]

\* The caller takes a stored item out of one index of a steady-state tree
\* and looks it up through every index.
RekeyRemoveKeyIdx(key_idx, item) ==
    /\ Running
    /\ SteadyState
    /\ item \in avl_tree_array[0]
    /\ Apply("mkavl_remove_key_idx", key_idx, item,
             mkavl_remove_key_idx(avl_tree_array, item_count, key_idx, item))
    /\ test' = [pc |-> "rekey_removed", key_idx |-> key_idx, item |-> item,
                count |-> item_count,
                found |-> FoundByIdx(avl_tree_array', item)]

\* The caller changes the last name of the item it took out of an index
\* ordered by last name.
RekeySetLastName(name) ==
    /\ test.pc = "rekey_removed"
    /\ test.item \in RenamedItems
    /\ ReadsLastName(compare_fn_array[test.key_idx + 1])
    /\ \A i \in KeyIdxs : ReadsLastName(compare_fn_array[i + 1])
                            => test.item \notin avl_tree_array[i]
    /\ name # last_name[test.item]
    /\ last_name' = [last_name EXCEPT ![test.item] = name]
    /\ last' = Call("set_last_name", 0, "", test.item, MKAVL_RC_E_SUCCESS,
                    NULL)
    /\ UNCHANGED << compare_fn_array, avl_tree_array, item_count, test >>

\* The caller puts the item back into the index and looks it up through
\* every index.
RekeyAddKeyIdx ==
    /\ test.pc = "rekey_removed"
    /\ Apply("mkavl_add_key_idx", test.key_idx, test.item,
             mkavl_add_key_idx(avl_tree_array, item_count, test.key_idx,
                               test.item))
    /\ test' = [test EXCEPT !.pc = "rekey_added",
                            !.found = FoundByIdx(avl_tree_array', test.item)]

RekeyNext ==
    \/ \E key_idx \in KeyIdxs, item \in Items :
          RekeyRemoveKeyIdx(key_idx, item)
    \/ \E name \in Names : RekeySetLastName(name)
    \/ RekeyAddKeyIdx

CallsNext ==
    \/ \E item \in Items : Add(item)
    \/ \E item \in Items : Remove(item)
    \/ \E key_idx \in KeyIdxs, item \in Items : AddKeyIdx(key_idx, item)
    \/ \E key_idx \in KeyIdxs, item \in Items : RemoveKeyIdx(key_idx, item)
    \/ \E item \in RenamedItems, name \in Names : SetLastName(item, name)

(* -------------- aggregate calls only: mkavl_add, mkavl_remove ----------- *)

\* Only mkavl_add and mkavl_remove are called, and no last name changes:
\* two objects compare equal under one comparator iff they do under all.
AggregateNext ==
    \/ \E item \in AllItems : Add(item)
    \/ \E item \in AllItems : Remove(item)

SpecAggregate == CallsInit /\ [][AggregateNext]_vars

(* ------------------ the lookups, on steady-state trees ------------------ *)

\* Whether no two items of a set compare equal under comparator key_idx.
NoDuplicates(tree, key_idx) ==
    \A a, b \in tree : a # b => mkavl_compare_wrapper(key_idx, a, b) # 0

\* A tree in steady state: some last names, and every AVL tree holding the
\* same items, as left by mkavl_add of each of them.
FindInit ==
    /\ compare_fn_array \in CompareFnArrays
    /\ last_name \in { f \in [AllItems -> Names] :
                         \A p \in AllItems \ RenamedItems : f[p] = 1 }
    /\ \E tree \in SUBSET AllItems :
         /\ avl_tree_array = [i \in 0 .. (Len(compare_fn_array) - 1) |-> tree]
         /\ item_count = Cardinality(tree)
    /\ \A i \in 0 .. (Len(compare_fn_array) - 1) :
         NoDuplicates(avl_tree_array[i], i)
    /\ last = [NewCall(compare_fn_array) EXCEPT !.op = "mkavl_add",
                                                !.trees = avl_tree_array,
                                                !.count = item_count]
    /\ test = NoTest

\* A lookup changes nothing in the tree, so each one is made on the tree as
\* it was built, not after another lookup.
Find(type, key_idx, item) ==
    /\ last.op # "mkavl_find"
    /\ \E avl_root \in AvlRoots(avl_tree_array[key_idx], key_idx) :
         last' = Call("mkavl_find", key_idx, type, item, MKAVL_RC_E_SUCCESS,
                      mkavl_find(avl_tree_array, avl_root, type, key_idx,
                                 item))
    /\ UNCHANGED << compare_fn_array, last_name, avl_tree_array, item_count,
                    test >>

FindNext ==
    \E type \in FindTypes, key_idx \in KeyIdxs, item \in AllItems :
        Find(type, key_idx, item)

SpecFind == FindInit /\ [][FindNext]_vars

(* ---------- the unit test: mkavl_test_add, mkavl_test_remove ------------ *)

\* The permutations of 1 .. n (permute_array).
PermutationsOf(n) ==
    { f \in [1 .. n -> 1 .. n] : \A a, b \in 1 .. n : f[a] = f[b] => a = b }

\* get_unique_count: the number of distinct values of a sequence of items.
get_unique_count(seq) ==
    Cardinality({ ItemId(seq[k]) : k \in 1 .. Len(seq) })

\* The comparator array of the unit test.
cmp_fn_array == << "mkavl_cmp_fn1", "mkavl_cmp_fn2" >>

\* main and run_mkavl_test up to mkavl_test_add: a sequence of node_cnt
\* keys to insert, a permutation of it to delete, and a new tree.
TestInit ==
    /\ compare_fn_array = cmp_fn_array
    /\ last_name = [p \in AllItems |-> 1]
    /\ avl_tree_array = [i \in 0 .. (Len(compare_fn_array) - 1) |-> {}]
    /\ item_count = 0
    /\ last = NewCall(compare_fn_array)
    /\ \E insert_seq \in [1 .. NodeCnt -> Items], p \in PermutationsOf(NodeCnt) :
         test = [pc |-> "mkavl_test_add",
                 insert_seq |-> insert_seq,
                 delete_seq |-> [k \in 1 .. NodeCnt |-> insert_seq[p[k]]],
                 uniq_cnt |-> get_unique_count(insert_seq),
                 dup_cnt |-> NodeCnt - get_unique_count(insert_seq),
                 i |-> 0, non_null_cnt |-> 0, null_cnt |-> 0]

\* mkavl_test_add: one turn of the loop over insert_seq.
TestAdd ==
    /\ test.pc = "mkavl_test_add"
    /\ test.i < NodeCnt
    /\ Apply("mkavl_add", 0, test.insert_seq[test.i + 1],
             mkavl_add(avl_tree_array, item_count, test.insert_seq[test.i + 1]))
    /\ test' = IF last'.rc # MKAVL_RC_E_SUCCESS
               THEN [test EXCEPT !.pc = "failed"]
               ELSE [test EXCEPT !.i = @ + 1,
                                 !.non_null_cnt =
                                     IF last'.out # NULL THEN @ + 1 ELSE @]

\* mkavl_test_add: the checks after the loop.
TestAddCheck ==
    /\ test.pc = "mkavl_test_add"
    /\ test.i = NodeCnt
    /\ test' = IF \/ test.non_null_cnt # test.dup_cnt
                  \/ mkavl_count # test.uniq_cnt
               THEN [test EXCEPT !.pc = "failed"]
               ELSE [test EXCEPT !.pc = "mkavl_test_remove", !.i = 0]
    /\ UNCHANGED << compare_fn_array, last_name, avl_tree_array, item_count,
                    last >>

\* mkavl_test_remove: one turn of the loop over delete_seq.
TestRemove ==
    /\ test.pc = "mkavl_test_remove"
    /\ test.i < NodeCnt
    /\ Apply("mkavl_remove", 0, test.delete_seq[test.i + 1],
             mkavl_remove(avl_tree_array, item_count,
                          test.delete_seq[test.i + 1]))
    /\ test' = IF last'.rc # MKAVL_RC_E_SUCCESS
               THEN [test EXCEPT !.pc = "failed"]
               ELSE [test EXCEPT !.i = @ + 1,
                                 !.null_cnt =
                                     IF last'.out = NULL THEN @ + 1 ELSE @]

\* mkavl_test_remove: the checks after the loop.
TestRemoveCheck ==
    /\ test.pc = "mkavl_test_remove"
    /\ test.i = NodeCnt
    /\ test' = IF \/ test.null_cnt # test.dup_cnt
                  \/ mkavl_count # 0
               THEN [test EXCEPT !.pc = "failed"]
               ELSE [test EXCEPT !.pc = "passed"]
    /\ UNCHANGED << compare_fn_array, last_name, avl_tree_array, item_count,
                    last >>

TestNext ==
    \/ TestAdd
    \/ TestAddCheck
    \/ TestRemove
    \/ TestRemoveCheck

(* ------------- the life of a tree: mkavl_new .. mkavl_delete ----------- *)

\* The caller holds a tree made by mkavl_new with a context and an
\* allocator of its own; heap is the set of blocks obtained through the
\* allocator and not released.
LifeInit ==
    /\ compare_fn_array \in CompareFnArrays
    /\ last_name = [p \in AllItems |-> 1]
    /\ avl_tree_array = [i \in 0 .. (Len(compare_fn_array) - 1) |-> {}]
    /\ item_count = 0
    /\ last = NewCall(compare_fn_array)
    /\ \E context \in Contexts :
         test = [pc |-> "life", tree_h |-> 1, context |-> context,
                 heap |-> mkavl_new(compare_fn_array, 0, FALSE).heap]

\* The caller still holds its tree.
Alive == test.pc = "life" /\ test.tree_h # NULL /\ last.rc # ABORTED

\* A mutating call on the tree of the caller: libavl obtains a node for
\* every item an AVL tree takes in and releases the node of every item it
\* gives up.  Of these calls only the name and the return code are kept.
LifeApply(op, key_idx, item, r) ==
    /\ Alive
    /\ r.item_count <= MaxCount
    /\ avl_tree_array' = r.trees
    /\ item_count' = r.item_count
    /\ last' = [NewCall(compare_fn_array) EXCEPT !.op = op, !.rc = r.rc]
    /\ UNCHANGED << compare_fn_array, last_name >>
    /\ test' = [test EXCEPT !.heap = (@ \ NodeBlocks(avl_tree_array))
                                       \cup NodeBlocks(r.trees)]

LifeAdd(item) ==
    LifeApply("mkavl_add", 0, item, mkavl_add(avl_tree_array, item_count, item))

LifeRemove(item) ==
    LifeApply("mkavl_remove", 0, item,
              mkavl_remove(avl_tree_array, item_count, item))

LifeAddKeyIdx(key_idx, item) ==
    LifeApply("mkavl_add_key_idx", key_idx, item,
              mkavl_add_key_idx(avl_tree_array, item_count, key_idx, item))

LifeRemoveKeyIdx(key_idx, item) ==
    LifeApply("mkavl_remove_key_idx", key_idx, item,
              mkavl_remove_key_idx(avl_tree_array, item_count, key_idx, item))

\* mkavl_delete of the tree: the handle of the caller is null when the call
\* returns, and the blocks the call released leave the heap.
Delete(item_fn, delete_context_fn) ==
    /\ Alive
    /\ LET r == mkavl_delete(avl_tree_array, item_count, test.context,
                             NewTables, item_fn, delete_context_fn)
       IN  /\ avl_tree_array' = r.trees
           /\ item_count' = r.item_count
           /\ last' = [op |-> "mkavl_delete", key_idx |-> 0, type |-> "",
                       item |-> NULL, rc |-> r.rc, out |-> NULL,
                       trees |-> avl_tree_array, count |-> item_count,
                       item_fn |-> item_fn,
                       delete_context_fn |-> delete_context_fn,
                       heap |-> test.heap, events |-> r.events]
           /\ test' = [test EXCEPT
                         !.tree_h = IF r.rc = ABORTED THEN @ ELSE NULL,
                         !.heap = @ \ Freed(r.events)]
    /\ UNCHANGED << compare_fn_array, last_name >>

LifeNext ==
    \/ \E item \in Items : LifeAdd(item)
    \/ \E item \in Items : LifeRemove(item)
    \/ \E key_idx \in KeyIdxs, item \in Items : LifeAddKeyIdx(key_idx, item)
    \/ \E key_idx \in KeyIdxs, item \in Items :
          LifeRemoveKeyIdx(key_idx, item)
    \/ \E item_fn \in ItemFns, delete_context_fn \in DeleteContextFns :
          Delete(item_fn, delete_context_fn)

SpecLife == LifeInit /\ [][LifeNext]_vars

(* ------------------- iterating over an AVL tree ------------------------ *)

\* One object per id: the objects a tree in steady state may hold.
UniqueItems == { p \in AllItems : p % 2 = 1 }

\* The caller holds a tree in steady state and an iterator made by
\* mkavl_iter_new on AVL tree key_idx of it; avl_node is the item the
\* traverser of the iterator is on.  walk is the items mkavl_iter_first and
\* the calls of mkavl_iter_next that followed it without another call in
\* between have returned.
IterInit ==
    /\ compare_fn_array \in CompareFnArrays
    /\ last_name \in { f \in [AllItems -> Names] :
                         \A p \in AllItems \ RenamedItems : f[p] = 1 }
    /\ \E tree \in SUBSET UniqueItems :
         /\ avl_tree_array = [i \in 0 .. (Len(compare_fn_array) - 1) |-> tree]
         /\ item_count = Cardinality(tree)
    /\ last = NewCall(compare_fn_array)
    /\ \E key_idx \in 0 .. (Len(compare_fn_array) - 1) :
         test = [pc |-> "iter", key_idx |-> key_idx, avl_node |-> NULL,
                 walk |-> << >>]

\* A call on the iterator: last keeps the item the traverser was on in
\* out-of-band field avl_node.
IterApply(op, item, r, walk) ==
    /\ test.pc = "iter"
    /\ last' = [op |-> op, key_idx |-> test.key_idx, type |-> "",
                item |-> item, rc |-> r.rc, out |-> r.item,
                trees |-> avl_tree_array, count |-> item_count,
                avl_node |-> test.avl_node, walk |-> test.walk]
    /\ test' = [test EXCEPT !.avl_node = r.avl_node, !.walk = walk]
    /\ UNCHANGED << compare_fn_array, last_name, avl_tree_array, item_count >>

IterFirst ==
    LET r == mkavl_iter_first(avl_tree_array[test.key_idx], test.key_idx,
                              test.avl_node)
    IN  IterApply("mkavl_iter_first", NULL, r, << r.item >>)

IterLast ==
    IterApply("mkavl_iter_last", NULL,
              mkavl_iter_last(avl_tree_array[test.key_idx], test.key_idx,
                              test.avl_node), << >>)

IterFind(lookup_item) ==
    IterApply("mkavl_iter_find", lookup_item,
              mkavl_iter_find(avl_tree_array[test.key_idx], test.key_idx,
                              test.avl_node, lookup_item), << >>)

\* Whether the walk has returned the null that ends it.
WalkEnded(walk) == walk # << >> /\ walk[Len(walk)] = NULL

IterNext ==
    LET r == mkavl_iter_next(avl_tree_array[test.key_idx], test.key_idx,
                             test.avl_node)
    IN  IterApply("mkavl_iter_next", NULL, r,
                  IF test.walk = << >> \/ WalkEnded(test.walk) THEN << >>
                  ELSE Append(test.walk, r.item))

IterPrev ==
    IterApply("mkavl_iter_prev", NULL,
              mkavl_iter_prev(avl_tree_array[test.key_idx], test.key_idx,
                              test.avl_node), << >>)

IterCur ==
    IterApply("mkavl_iter_cur", NULL,
              mkavl_iter_cur(avl_tree_array[test.key_idx], test.key_idx,
                             test.avl_node), test.walk)

IterateNext ==
    \/ IterFirst
    \/ IterLast
    \/ \E lookup_item \in AllItems : IterFind(lookup_item)
    \/ IterNext
    \/ IterPrev
    \/ IterCur

SpecIter == IterInit /\ [][IterateNext]_vars

(* ---------------------- copying a tree: mkavl_copy --------------------- *)

\* The objects a source tree may hold: one per id, each with a twin.
SourceItems == { p \in UniqueItems : Twin(p) \in AllItems }

\* The context the caller passes to mkavl_copy as new_context.
NewContext == 2

\* The caller holds a source tree with a context of its own: in steady
\* state, or with one item missing from one AVL tree, as a single-index
\* removal leaves it.
CopyInit ==
    /\ compare_fn_array \in CompareFnArrays
    /\ last_name = [p \in AllItems |-> 1]
    /\ \E tree \in SUBSET SourceItems :
         \E key_idx \in 0 .. (Len(compare_fn_array) - 1) :
            \E missing \in { s \in SUBSET tree : Cardinality(s) <= 1 } :
               /\ avl_tree_array =
                      [i \in 0 .. (Len(compare_fn_array) - 1) |->
                          IF i = key_idx THEN tree \ missing ELSE tree]
               /\ item_count = Cardinality(tree)
    /\ last = NewCall(compare_fn_array)
    /\ test = [pc |-> "copy", context |-> 1, copy_fn |-> "NULL",
               tree_copy_h |-> [new_tree_h |-> NULL]]

\* mkavl_copy of the source tree with an allocator for the new tree.  The
\* source tree keeps its items, its count and its context; its copy_fn is
\* set for the time of avl_copy and then restored.
Copy(copy_fn, item_fn, use_source_context, delete_context_fn, fail_at, avl_ctx_uninit) ==
    /\ test.pc = "copy"
    /\ last.op # "mkavl_copy"
    /\ LET r == mkavl_copy(avl_tree_array, test.context, copy_fn, item_fn,
                           use_source_context, NewContext, delete_context_fn,
                           fail_at, avl_ctx_uninit)
       IN  /\ last' = [op |-> "mkavl_copy", key_idx |-> 0, type |-> "",
                       item |-> NULL, rc |-> r.rc, out |-> r.new_tree_h,
                       trees |-> avl_tree_array, count |-> item_count,
                       copy_fn |-> copy_fn, item_fn |-> item_fn,
                       use_source_context |-> use_source_context,
                       delete_context_fn |-> delete_context_fn,
                       fail_at |-> fail_at, events |-> r.events,
                       context |-> test.context,
                       old_copy_fn |-> test.copy_fn,
                       avl_params |-> IF r.rc = MKAVL_RC_E_SUCCESS
                                      THEN mkavl_copy_avl_params
                                      ELSE << >>]
           /\ test' = [test EXCEPT
                         !.tree_copy_h = r,
                         !.copy_fn = mkavl_copy_old_copy_fn(@, copy_fn)]
    /\ UNCHANGED << compare_fn_array, last_name, avl_tree_array, item_count >>

CopyNext ==
    \E copy_fn \in CopyFns, item_fn \in ItemFns \ {"item_fn_notok"},
       use_source_context \in BOOLEAN,
       delete_context_fn \in DeleteContextFns,
       fail_at \in 0 .. (3 + 2 * avl_tree_count),
       avl_ctx_uninit \in BOOLEAN :
        Copy(copy_fn, item_fn, use_source_context, delete_context_fn,
             fail_at, avl_ctx_uninit)

SpecCopy == CopyInit /\ [][CopyNext]_vars

(* ----------------------- walking a tree: mkavl_walk -------------------- *)

\* The walk contexts a caller passes: none, or an object of its own.
WalkContexts == {NULL, 3}

\* The calls on which the callback may stop or fail: none (0), any call of
\* a complete walk, and one past the last.
WalkCalls == 0 .. (Cardinality(UniqueItems) + 1)

\* The caller holds a tree with a context of its own: in steady state, or
\* with one item missing from one AVL tree, as a single-index removal
\* leaves it.
WalkInit ==
    /\ compare_fn_array \in CompareFnArrays
    /\ last_name = [p \in AllItems |-> 1]
    /\ \E tree \in SUBSET UniqueItems :
         \E key_idx \in 0 .. (Len(compare_fn_array) - 1) :
            \E missing \in { s \in SUBSET tree : Cardinality(s) <= 1 } :
               /\ avl_tree_array =
                      [i \in 0 .. (Len(compare_fn_array) - 1) |->
                          IF i = key_idx THEN tree \ missing ELSE tree]
               /\ item_count = Cardinality(tree)
    /\ last = NewCall(compare_fn_array)
    /\ \E context \in Contexts : test = [pc |-> "walk", context |-> context]

\* mkavl_walk changes nothing in the tree, so each walk is made on the tree
\* as it was built.
Walk(walk_context, stop_at, notok_at) ==
    /\ test.pc = "walk"
    /\ last.op # "mkavl_walk"
    /\ LET r == mkavl_walk(avl_tree_array, test.context, walk_context,
                           stop_at, notok_at)
       IN  last' = [op |-> "mkavl_walk", key_idx |-> 0, type |-> "",
                    item |-> NULL, rc |-> r.rc, out |-> NULL,
                    trees |-> avl_tree_array, count |-> item_count,
                    walk_context |-> walk_context, stop_at |-> stop_at,
                    notok_at |-> notok_at, events |-> r.events]
    /\ UNCHANGED << compare_fn_array, last_name, avl_tree_array, item_count,
                    test >>

WalkNext ==
    \E walk_context \in WalkContexts, stop_at \in WalkCalls,
       notok_at \in WalkCalls :
        Walk(walk_context, stop_at, notok_at)

SpecWalk == WalkInit /\ [][WalkNext]_vars

(* ----------------------- making a tree: mkavl_new ---------------------- *)

\* A value other than null that the handle of the caller may hold before
\* mkavl_new is called.
OldTreeHandle == 2

\* The caller is about to call mkavl_new with an allocator of its own:
\* compare_fn_array is the comparator array it has, and its handle holds
\* null or an old value.
NewInit ==
    /\ compare_fn_array \in CompareFnArrays
    /\ last_name = [p \in AllItems |-> 1]
    /\ avl_tree_array = [i \in 0 .. (Len(compare_fn_array) - 1) |-> {}]
    /\ item_count = 0
    /\ last = NewCall(compare_fn_array)
    /\ \E tree_h \in {NULL, OldTreeHandle}, context \in Contexts :
         test = [pc |-> "new", tree_h |-> tree_h, context |-> context,
                 heap |-> {}]

\* mkavl_new, called once.
New(has_tree_h, has_compare_fn_array, count, null_fn, fail_at, uninit) ==
    /\ test.pc = "new"
    /\ last.op # "mkavl_new_call"
    /\ LET r == mkavl_new_call(has_tree_h, test.tree_h, has_compare_fn_array,
                               count, null_fn, fail_at, uninit)
       IN  /\ last' = [op |-> "mkavl_new_call", key_idx |-> 0, type |-> "",
                       item |-> NULL, rc |-> r.rc, out |-> r.tree_h,
                       trees |-> avl_tree_array, count |-> item_count,
                       has_tree_h |-> has_tree_h, tree_h |-> test.tree_h,
                       has_compare_fn_array |-> has_compare_fn_array,
                       compare_fn_array_count |-> count,
                       null_fn |-> null_fn, fail_at |-> fail_at,
                       events |-> r.events]
           /\ test' = [test EXCEPT !.tree_h = IF has_tree_h THEN r.tree_h
                                              ELSE @,
                                   !.heap = r.heap]
    /\ UNCHANGED << compare_fn_array, last_name, avl_tree_array, item_count >>

NewNext ==
    \E has_tree_h \in BOOLEAN, has_compare_fn_array \in BOOLEAN,
       count \in {0, avl_tree_count}, null_fn \in -1 .. (avl_tree_count - 1),
       fail_at \in 0 .. (2 + 2 * avl_tree_count), uninit \in BOOLEAN :
        New(has_tree_h, has_compare_fn_array, count, null_fn, fail_at, uninit)

SpecNew == NewInit /\ [][NewNext]_vars

(* ------------- calls with any arguments, on a tree or on none ---------- *)

\* The items of the tree of the caller: at most one object of each of the
\* first two ids.
ArgsItems == {p \in UniqueItems : p \in Items}

\* The caller holds a tree in steady state and an iterator on its first
\* AVL tree, on no item or on the first one.  deleted tells that the tree
\* has been destroyed, delete_rc what the mkavl_delete that did it
\* returned, and destroyed what the AVL tree of the iterator held then.
ArgsInit ==
    /\ compare_fn_array \in CompareFnArrays
    /\ last_name = [p \in AllItems |-> 1]
    /\ \E tree \in SUBSET ArgsItems :
         /\ avl_tree_array = [i \in 0 .. (Len(compare_fn_array) - 1) |-> tree]
         /\ item_count = Cardinality(tree)
         /\ \E avl_node \in {NULL, avl_t_first(tree, 0)} :
              test = [pc |-> "args", context |-> 1,
                      tree_h |-> NewTreeHandle,
                      iterator_h |-> NewIteratorHandle, avl_node |-> avl_node,
                      deleted |-> FALSE, delete_rc |-> "",
                      destroyed |-> {}]
    /\ last = NewCall(compare_fn_array)

\* A call is made on the tree as mkavl_new and the additions left it, or
\* as a mkavl_delete left it.
ArgsReady == test.pc = "args" /\ last.op \in {"mkavl_new", "mkavl_delete"}

\* The record of a call: also the handle and the out-pointer it was given,
\* and for a call on an iterator the handle of the iterator, what its tree
\* read as, and the item its traverser was on.
ArgsCall(op, tree_h, key_idx, type, item, pointer, rc, out) ==
    [op |-> op, key_idx |-> key_idx, type |-> type, item |-> item,
     rc |-> rc, out |-> out, trees |-> avl_tree_array, count |-> item_count,
     tree_h |-> tree_h, pointer |-> pointer, iterator_h |-> NULL,
     tree_read |-> "", avl_node |-> NULL, deleted |-> test.deleted]

\* A call that may change the tree.
ArgsApply(op, tree_h, key_idx, item, pointer, r) ==
    /\ ArgsReady
    /\ avl_tree_array' = r.trees
    /\ item_count' = r.item_count
    /\ last' = ArgsCall(op, tree_h, key_idx, "", item, pointer, r.rc, r.out)
    /\ UNCHANGED << compare_fn_array, last_name, test >>

ArgsAdd(tree_h, item, pointer) ==
    ArgsApply("mkavl_add", tree_h, 0, item, pointer,
              mkavl_add_call(tree_h, avl_tree_array, item_count, item,
                             pointer))

ArgsRemove(tree_h, item, pointer) ==
    ArgsApply("mkavl_remove", tree_h, 0, item, pointer,
              mkavl_remove_call(tree_h, avl_tree_array, item_count, item,
                                pointer))

ArgsAddKeyIdx(tree_h, key_idx, item, pointer) ==
    ArgsApply("mkavl_add_key_idx", tree_h, key_idx, item, pointer,
              mkavl_add_key_idx_call(tree_h, avl_tree_array, item_count,
                                     key_idx, item, pointer))

ArgsRemoveKeyIdx(tree_h, key_idx, item, pointer) ==
    ArgsApply("mkavl_remove_key_idx", tree_h, key_idx, item, pointer,
              mkavl_remove_key_idx_call(tree_h, avl_tree_array, item_count,
                                        key_idx, item, pointer))

ArgsFind(tree_h, type, key_idx, item, pointer) ==
    /\ ArgsReady
    /\ \E avl_root \in IF key_idx \in KeyIdxs
                       THEN AvlRoots(avl_tree_array[key_idx], key_idx)
                       ELSE {NullNode} :
         LET r == mkavl_find_call(tree_h, avl_tree_array, item_count,
                                  avl_root, type, key_idx, item, pointer)
         IN  last' = ArgsCall("mkavl_find", tree_h, key_idx, type, item,
                              pointer, r.rc, r.out)
    /\ UNCHANGED << compare_fn_array, last_name, avl_tree_array, item_count,
                    test >>

\* mkavl_count: the count is kept as the out-parameter of the call.
ArgsCount(tree_h) ==
    /\ ArgsReady
    /\ last' = ArgsCall("mkavl_count", tree_h, 0, "", NULL, NullPointer,
                        MKAVL_RC_E_SUCCESS,
                        mkavl_count_call(tree_h, item_count))
    /\ UNCHANGED << compare_fn_array, last_name, avl_tree_array, item_count,
                    test >>

\* mkavl_walk with a callback that never stops the walk, or with none.
ArgsWalk(tree_h, cb_fn) ==
    /\ ArgsReady
    /\ LET r == mkavl_walk_call(tree_h, avl_tree_array, test.context, cb_fn,
                                NULL, 0, 0)
       IN  last' = ArgsCall("mkavl_walk", tree_h, 0, cb_fn, NULL,
                            NullPointer, r.rc, Len(r.events))
    /\ UNCHANGED << compare_fn_array, last_name, avl_tree_array, item_count,
                    test >>

\* mkavl_iter_new for a second iterator of the caller.
ArgsIterNew(iterator_h, tree_h, key_idx, malloc_fails) ==
    /\ ArgsReady
    /\ LET r == mkavl_iter_new_call(iterator_h, tree_h, key_idx, malloc_fails)
       IN  last' = ArgsCall("mkavl_iter_new", tree_h, key_idx, "", NULL,
                            iterator_h, r.rc, r.iterator_h)
    /\ UNCHANGED << compare_fn_array, last_name, avl_tree_array, item_count,
                    test >>

\* mkavl_delete through a pointer to the handle of the caller, or through
\* a null pointer.
ArgsDelete(tree_h, item_fn, delete_context_fn) ==
    /\ ArgsReady
    /\ LET r == mkavl_delete_call(tree_h, avl_tree_array, item_count,
                                  test.context, NewTables, item_fn,
                                  delete_context_fn)
           destroys == /\ tree_h # NullPointer
                       /\ mkavl_tree_h_is_valid(Deref(tree_h))
                       /\ r.rc # ABORTED
       IN  /\ avl_tree_array' = r.trees
           /\ item_count' = r.item_count
           /\ last' = ArgsCall("mkavl_delete", Deref(tree_h), 0, "", NULL,
                               tree_h, r.rc, r.tree_h)
           /\ test' = [test EXCEPT
                         !.tree_h = IF tree_h = NullPointer THEN @
                                    ELSE r.tree_h,
                         !.deleted = @ \/ destroys,
                         !.delete_rc = IF destroys THEN r.rc ELSE @,
                         !.destroyed = IF destroys THEN avl_tree_array[0]
                                       ELSE @]
    /\ UNCHANGED << compare_fn_array, last_name >>

\* What the tree of the iterator of the caller may read as.
ArgsTreeReads ==
    IF test.deleted THEN TreeReads \ {"live"} ELSE {"live"}

\* The AVL tree of the iterator of the caller, as the memory holds it.
ArgsIterTree == IF test.deleted THEN test.destroyed ELSE avl_tree_array[0]

\* A call on the iterator of the caller, or on a null iterator; only
\* mkavl_iter_find takes an item to look up.
ArgsIter(op, iterator_h, tree_read, key, item) ==
    /\ ArgsReady
    /\ op # "mkavl_iter_find" => key = NULL
    /\ LET r == mkavl_iter_call(op, iterator_h, tree_read, ArgsIterTree, 0,
                                test.avl_node, key, item)
       IN  /\ last' = [ArgsCall(op, test.tree_h, 0, "", key, item, r.rc,
                                r.item)
                         EXCEPT !.iterator_h = iterator_h,
                                !.tree_read = tree_read,
                                !.avl_node = test.avl_node]
           /\ test' = [test EXCEPT !.avl_node = r.avl_node]
    /\ UNCHANGED << compare_fn_array, last_name, avl_tree_array, item_count >>

\* mkavl_iter_delete through a pointer to the iterator handle of the
\* caller, to a null handle, or through a null pointer.
ArgsIterDelete(iterator_h, tree_read) ==
    /\ ArgsReady
    /\ LET r == mkavl_iter_delete_call(iterator_h, tree_read)
       IN  /\ last' = [ArgsCall("mkavl_iter_delete", test.tree_h, 0, "", NULL,
                                iterator_h, r.rc, r.iterator_h)
                         EXCEPT !.iterator_h = Deref(iterator_h),
                                !.tree_read = tree_read,
                                !.avl_node = test.avl_node]
           /\ test' = [test EXCEPT
                         !.iterator_h = IF iterator_h = << test.iterator_h >>
                                        THEN r.iterator_h ELSE @]
    /\ UNCHANGED << compare_fn_array, last_name, avl_tree_array, item_count >>

\* The handles, items, out-pointers, key indices and find types a call is
\* given.
ArgsTreeHandles == {NULL, test.tree_h}

ArgsItemArgs == {NULL} \cup Items

ArgsPointers == {NullPointer, << NULL >>, << 1 >>}

ArgsKeyIdxs == 0 .. avl_tree_count

ArgsNext ==
    \/ \E tree_h \in ArgsTreeHandles, item \in ArgsItemArgs,
          pointer \in ArgsPointers :
            \/ ArgsAdd(tree_h, item, pointer)
            \/ ArgsRemove(tree_h, item, pointer)
            \/ \E key_idx \in ArgsKeyIdxs :
                 \/ ArgsAddKeyIdx(tree_h, key_idx, item, pointer)
                 \/ ArgsRemoveKeyIdx(tree_h, key_idx, item, pointer)
                 \/ \E type \in FindTypes \cup InvalidFindTypes :
                      ArgsFind(tree_h, type, key_idx, item, pointer)
    \/ \E tree_h \in ArgsTreeHandles : ArgsCount(tree_h)
    \/ \E tree_h \in ArgsTreeHandles, cb_fn \in {"NULL", "mkavl_test_walk_cb"} :
          ArgsWalk(tree_h, cb_fn)
    \/ \E iterator_h \in {NullPointer, << NULL >>},
          tree_h \in ArgsTreeHandles, key_idx \in ArgsKeyIdxs,
          malloc_fails \in BOOLEAN :
            ArgsIterNew(iterator_h, tree_h, key_idx, malloc_fails)
    \/ \E tree_h \in {NullPointer, << test.tree_h >>}, item_fn \in ItemFns,
          delete_context_fn \in DeleteContextFns :
            ArgsDelete(tree_h, item_fn, delete_context_fn)
    \/ \E op \in IterOps, iterator_h \in {NULL, test.iterator_h},
          tree_read \in ArgsTreeReads, key \in ArgsItemArgs,
          item \in ArgsPointers :
            ArgsIter(op, iterator_h, tree_read, key, item)
    \/ \E iterator_h \in {NullPointer, << NULL >>, << test.iterator_h >>},
          tree_read \in ArgsTreeReads :
            ArgsIterDelete(iterator_h, tree_read)

SpecArgs == ArgsInit /\ [][ArgsNext]_vars

(* ------- scanning an index: mkavl_find GE, then GT until null ---------- *)

\* The caller looks up the first item at or after lookup_item in AVL tree
\* key_idx and goes on from each item found to the next greater one, as
\* lookup_employees_by_last_name and display_memory do.  The tree is in
\* steady state; test keeps the item the scan is on and the items found.
ScanInit ==
    /\ compare_fn_array \in CompareFnArrays
    /\ last_name \in { f \in [AllItems -> Names] :
                         \A p \in AllItems \ RenamedItems : f[p] = 1 }
    /\ \E tree \in SUBSET UniqueItems :
         /\ avl_tree_array = [i \in 0 .. (Len(compare_fn_array) - 1) |-> tree]
         /\ item_count = Cardinality(tree)
    /\ last = [NewCall(compare_fn_array) EXCEPT !.op = "mkavl_add",
                                                !.trees = avl_tree_array,
                                                !.count = item_count]
    /\ \E key_idx \in 0 .. (Len(compare_fn_array) - 1) :
         \E avl_root \in AvlRoots(avl_tree_array[key_idx], key_idx) :
            \E lookup_item \in AllItems :
               test = [pc |-> "scan", key_idx |-> key_idx,
                       avl_root |-> avl_root, lookup_item |-> lookup_item,
                       started |-> FALSE, cur_item |-> NULL,
                       found |-> << >>]

\* A lookup of the scan: the item found becomes the item the scan is on.
ScanFind(type, item) ==
    LET found_item == mkavl_find(avl_tree_array, test.avl_root, type,
                                 test.key_idx, item)
    IN  /\ last' = Call("mkavl_find", test.key_idx, type, item,
                        MKAVL_RC_E_SUCCESS, found_item)
        /\ test' = [test EXCEPT
                      !.started = TRUE,
                      !.cur_item = found_item,
                      !.found = IF found_item = NULL THEN @
                                ELSE Append(@, found_item)]
        /\ UNCHANGED << compare_fn_array, last_name, avl_tree_array,
                        item_count >>

\* The lookup before the loop.
ScanStart ==
    /\ test.pc = "scan"
    /\ ~test.started
    /\ ScanFind("GE", test.lookup_item)

\* One pass of the loop; the loop is cut off once it has found more items
\* than there are objects.
ScanStep ==
    /\ test.pc = "scan"
    /\ test.started
    /\ test.cur_item # NULL
    /\ Len(test.found) <= Cardinality(AllItems)
    /\ ScanFind("GT", test.cur_item)

ScanNext == ScanStart \/ ScanStep

SpecScan == ScanInit /\ [][ScanNext]_vars

\* The caller runs its loop for as long as the loop has a pass to make.
SpecScanFair == SpecScan /\ WF_vars(ScanNext)

(* ----- a new item added while an item is out of one index: my_malloc ---- *)

\* The caller holds a tree in steady state.  As my_malloc does, it takes
\* an item out of one AVL tree, may add another item to the tree, and puts
\* the first item back into that AVL tree.  test keeps the step the
\* caller is at, the item taken out and its index, and the record of the
\* mkavl_add.
SplitInit ==
    /\ compare_fn_array \in CompareFnArrays
    /\ last_name = [p \in AllItems |-> 1]
    /\ \E tree \in SUBSET UniqueItems :
         /\ avl_tree_array = [i \in 0 .. (Len(compare_fn_array) - 1) |-> tree]
         /\ item_count = Cardinality(tree)
    /\ last = NewCall(compare_fn_array)
    /\ test = [pc |-> "my_malloc", step |-> "start", key_idx |-> 0,
               cur_item |-> NULL, add |-> NewCall(compare_fn_array)]

\* A call of the caller, which takes it to its next step.
SplitApply(op, key_idx, item, r, step) ==
    /\ avl_tree_array' = r.trees
    /\ item_count' = r.item_count
    /\ last' = Call(op, key_idx, "", item, r.rc, r.out)
    /\ test' = [test EXCEPT !.step = step,
                            !.key_idx = key_idx,
                            !.cur_item = IF step = "removed" THEN r.out ELSE @,
                            !.add = IF step = "added" THEN last' ELSE @]
    /\ UNCHANGED << compare_fn_array, last_name >>

\* mkavl_remove_key_idx of a stored item from one AVL tree.
SplitRemoveKeyIdx(key_idx, item) ==
    /\ test.pc = "my_malloc" /\ test.step = "start"
    /\ item \in avl_tree_array[key_idx]
    /\ SplitApply("mkavl_remove_key_idx", key_idx, item,
                  mkavl_remove_key_idx(avl_tree_array, item_count, key_idx,
                                       item), "removed")

\* mkavl_add of the other part of the block.
SplitAdd(new_item) ==
    /\ test.pc = "my_malloc" /\ test.step = "removed"
    /\ SplitApply("mkavl_add", test.key_idx, new_item,
                  mkavl_add(avl_tree_array, item_count, new_item), "added")

\* mkavl_add_key_idx of the item taken out, into the AVL tree it was
\* taken out of.
SplitAddKeyIdx ==
    /\ test.pc = "my_malloc" /\ test.step \in {"removed", "added"}
    /\ last.rc # ABORTED
    /\ SplitApply("mkavl_add_key_idx", test.key_idx, test.cur_item,
                  mkavl_add_key_idx(avl_tree_array, item_count, test.key_idx,
                                    test.cur_item), "done")

SplitNext ==
    \/ \E key_idx \in KeyIdxs, item \in UniqueItems :
          SplitRemoveKeyIdx(key_idx, item)
    \/ \E new_item \in AllItems : SplitAdd(new_item)
    \/ SplitAddKeyIdx

SpecSplit == SplitInit /\ [][SplitNext]_vars

(* -------- the loop of mkavl_delete and its runaway guard --------------- *)

\* The bound of the runaway guard.
MKAVL_RUNAWAY_SANITY == 100000

\* The numbers of items of the trees deleted: few, and as many as it
\* takes for runaway_counter to pass the bound.
RunawayCounts ==
    {0, 1, 2, MKAVL_RUNAWAY_SANITY + 1, MKAVL_RUNAWAY_SANITY + 2}

\* mkavl_delete is called on a tree in steady state.  The items are not
\* told apart here: item_count is the number of items every AVL tree
\* holds, and test keeps the number there was, runaway_counter, and
\* whether the loop is running, has ended or has aborted the process.
RunawayInit ==
    /\ compare_fn_array \in CompareFnArrays
    /\ last_name = [p \in AllItems |-> 1]
    /\ avl_tree_array = [i \in 0 .. (Len(compare_fn_array) - 1) |-> {}]
    /\ item_count \in RunawayCounts
    /\ last = NewCall(compare_fn_array)
    /\ test = [pc |-> "runaway", node_cnt |-> item_count,
               runaway_counter |-> 0, loop |-> "running"]

\* mkavl_delete: the assertion at the top of the loop fails.
mkavl_delete_runaway(runaway_counter) ==
    ~(runaway_counter <= MKAVL_RUNAWAY_SANITY)

\* One pass of the loop for the first item of AVL tree 0: the assertion,
\* the removal of the item from every AVL tree, and the counters.
RunawayPass ==
    /\ test.pc = "runaway" /\ test.loop = "running"
    /\ item_count > 0
    /\ IF mkavl_delete_runaway(test.runaway_counter)
       THEN /\ test' = [test EXCEPT !.loop = "aborted"]
            /\ last' = [last EXCEPT !.op = "mkavl_delete", !.rc = ABORTED]
            /\ UNCHANGED item_count
       ELSE /\ test' = [test EXCEPT !.runaway_counter = @ + 1]
            /\ item_count' = item_count - 1
            /\ UNCHANGED last
    /\ UNCHANGED << compare_fn_array, last_name, avl_tree_array >>

\* The loop ends when AVL tree 0 has no first item.
RunawayEnd ==
    /\ test.pc = "runaway" /\ test.loop = "running"
    /\ item_count = 0
    /\ test' = [test EXCEPT !.loop = "ended"]
    /\ last' = [last EXCEPT !.op = "mkavl_delete"]
    /\ UNCHANGED << compare_fn_array, last_name, avl_tree_array, item_count >>

RunawayNext == RunawayPass \/ RunawayEnd

SpecRunaway == RunawayInit /\ [][RunawayNext]_vars

(* ----------------------- the whole specification ----------------------- *)

\* The caller is either a program making any calls, among them the
\* re-keying of an item, or the unit test.
Init == CallsInit \/ TestInit

Next == CallsNext \/ RekeyNext \/ TestNext

Spec == Init /\ [][Next]_vars

TypeOK ==
    /\ compare_fn_array \in CompareFnArrays
    /\ last_name \in [AllItems -> Names]
    /\ avl_tree_array \in [KeyIdxs -> SUBSET AllItems]
    /\ item_count \in Nat
    /\ \A i \in KeyIdxs : NoDuplicates(avl_tree_array[i], i)

(* ------------------------------ properties ----------------------------- *)

\* Whether two objects compare equal under comparator key_idx.
EqualUnder(key_idx, a, b) == mkavl_compare_wrapper(key_idx, a, b) = 0

\* The comparators agree on which objects are equal.
AgreeOnEquality ==
    \A a, b \in AllItems : \A i, j \in KeyIdxs :
        EqualUnder(i, a, b) <=> EqualUnder(j, a, b)

\* C1: after any sequence of successful mkavl_add and mkavl_remove calls on
\* a tree whose comparators agree on equality, with no single-index call,
\* every AVL tree holds the same set of items (and every call has succeeded).
C1_SameItemsInAllIndices ==
    /\ AgreeOnEquality
    /\ last.rc = MKAVL_RC_E_SUCCESS
    /\ \A i \in KeyIdxs : avl_tree_array[i] = avl_tree_array[0]

\* C1 witness: two items are stored in each of several AVL trees after a
\* mkavl_remove that found its item.
C1_Witness ==
    /\ avl_tree_count > 1
    /\ last.op = "mkavl_remove" /\ last.out # NULL
    /\ Cardinality(avl_tree_array[avl_tree_count - 1]) = 2
    /\ last.out # last.item

\* C2: under aggregate calls only, mkavl_count is the number of items of
\* each AVL tree; a call changes it by one when an item was newly added
\* (+1) or removed (-1), whatever the number of AVL trees, else not at all.
C2_CountIsItemsPerIndex ==
    /\ \A i \in KeyIdxs : mkavl_count = Cardinality(avl_tree_array[i])
    /\ (last.op = "mkavl_add" /\ last.out = NULL)
          => mkavl_count = last.count + 1
    /\ (last.op = "mkavl_add" /\ last.out # NULL)
          => mkavl_count = last.count
    /\ (last.op = "mkavl_remove" /\ last.out # NULL)
          => mkavl_count = last.count - 1
    /\ (last.op = "mkavl_remove" /\ last.out = NULL)
          => mkavl_count = last.count

\* C2 witness: a second item was newly added to a tree of three AVL trees.
C2_Witness ==
    /\ avl_tree_count = 3
    /\ last.op = "mkavl_add" /\ last.out = NULL
    /\ mkavl_count = 2

\* Whether an object is held by every AVL tree.
StoredIn(trees, e) == \A i \in KeyIdxs : e \in trees[i]

\* The objects held by every AVL tree that compare equal to item under
\* every comparator (at most one, an AVL tree holding no two equal items).
StoredEqualItems(trees, item) ==
    { e \in AllItems : /\ StoredIn(trees, e)
                       /\ \A i \in KeyIdxs : EqualUnder(i, e, item) }

\* Whether no AVL tree holds an item equal to item under its comparator.
Absent(trees, item) ==
    \A i \in KeyIdxs : \A e \in trees[i] : ~EqualUnder(i, e, item)

C4_RemoveOfStoredItemSucceeds ==
    (last.op = "mkavl_remove" /\ StoredEqualItems(last.trees, last.item) # {})
        => /\ last.rc = MKAVL_RC_E_SUCCESS
           /\ last.out \in StoredEqualItems(last.trees, last.item)
           /\ \A i \in KeyIdxs :
                 avl_tree_array[i] = last.trees[i] \ {last.out}
           /\ mkavl_count = last.count - 1

\* C4, amended: mkavl_remove of an item stored in all AVL trees, the count
\* being at least one, returns Success with the stored item, removes it from
\* every AVL tree and decrements the count once; mkavl_remove of an absent
\* item returns Success with null and changes nothing.  In the unit test,
\* removing the NodeCnt inserted keys in any order gives dup_cnt null
\* results and a count of 0.
C4_RemoveOfCountedItemSucceeds ==
    /\ (/\ last.op = "mkavl_remove"
        /\ StoredEqualItems(last.trees, last.item) # {}
        /\ last.count >= 1)
          => /\ last.rc = MKAVL_RC_E_SUCCESS
             /\ last.out \in StoredEqualItems(last.trees, last.item)
             /\ \A i \in KeyIdxs :
                   avl_tree_array[i] = last.trees[i] \ {last.out}
             /\ mkavl_count = last.count - 1
    /\ (last.op = "mkavl_remove" /\ Absent(last.trees, last.item))
          => /\ last.rc = MKAVL_RC_E_SUCCESS
             /\ last.out = NULL
             /\ avl_tree_array = last.trees
             /\ mkavl_count = last.count
    /\ last.op = "mkavl_remove" => test.pc # "failed"
    /\ (test.pc = "mkavl_test_remove" /\ test.i = NodeCnt) =>
          /\ test.null_cnt = test.dup_cnt
          /\ mkavl_count = 0

\* C4 witness: the unit test has removed its keys, one of them a duplicate
\* that was no longer stored, the last one removed being stored.
C4_Witness ==
    /\ test.pc = "mkavl_test_remove" /\ test.i = NodeCnt
    /\ test.null_cnt = 1
    /\ last.op = "mkavl_remove" /\ last.out # NULL
    /\ mkavl_count = 0

\* Whether the AVL trees do not all produce the same pre-existing-or-null
\* result for an item.
Disagree(trees, item) ==
    \E i \in KeyIdxs : avl_find(trees[i], i, item) # avl_find(trees[0], 0, item)

\* C5: mkavl_add and mkavl_remove return OutOfSync whenever the AVL trees
\* do not all produce the same pre-existing-or-null result for the item,
\* with a null out-parameter and the count unchanged.
C5_DisagreementReturnsOutOfSync ==
    (last.op \in {"mkavl_add", "mkavl_remove"}
       /\ Disagree(last.trees, last.item))
        => /\ last.rc = MKAVL_RC_E_EOOSYNC
           /\ last.out = NULL
           /\ mkavl_count = last.count

\* C6: when mkavl_add returns OutOfSync every AVL tree holds exactly the
\* items it held before the call.
C6_AddOutOfSyncRollsBack ==
    (last.op = "mkavl_add" /\ last.rc = MKAVL_RC_E_EOOSYNC)
        => avl_tree_array = last.trees

\* C7: when mkavl_remove returns OutOfSync because the AVL trees disagreed
\* about the item, every AVL tree holds exactly the items it held before
\* the call.
C7_RemoveOutOfSyncRollsBack ==
    (last.op = "mkavl_remove" /\ last.rc = MKAVL_RC_E_EOOSYNC
       /\ Disagree(last.trees, last.item))
        => avl_tree_array = last.trees

\* The smallest item of a set under comparator key_idx, NULL if it is empty.
Smallest(set, key_idx) ==
    IF set = {} THEN NULL
    ELSE CHOOSE m \in set :
           \A e \in set : mkavl_compare_wrapper(key_idx, m, e) <= 0

\* The largest item of a set under comparator key_idx, NULL if it is empty.
Largest(set, key_idx) ==
    IF set = {} THEN NULL
    ELSE CHOOSE m \in set :
           \A e \in set : mkavl_compare_wrapper(key_idx, m, e) >= 0

\* The items of AVL tree key_idx that are greater than, less than and
\* equal to x under its comparator.
StoredGreater(key_idx, x) ==
    { e \in avl_tree_array[key_idx] : mkavl_compare_wrapper(key_idx, e, x) > 0 }

StoredLess(key_idx, x) ==
    { e \in avl_tree_array[key_idx] : mkavl_compare_wrapper(key_idx, e, x) < 0 }

StoredEqual(key_idx, x) ==
    { e \in avl_tree_array[key_idx] : EqualUnder(key_idx, e, x) }

\* C8: for every index and every lookup key, stored or not, a GT lookup
\* returns the smallest stored item strictly greater than the key, a GE
\* lookup the stored item equal to the key if there is one and else the GT
\* result, LT and LE the mirror image, each with Success, and null when no
\* stored item qualifies.
C8_DirectionalFind ==
    (last.op = "mkavl_find" /\ last.type # "EQUAL") =>
        LET i == last.key_idx
            x == last.item
            gt == Smallest(StoredGreater(i, x), i)
            lt == Largest(StoredLess(i, x), i)
            eq == Smallest(StoredEqual(i, x), i)
        IN  /\ last.rc = MKAVL_RC_E_SUCCESS
            /\ last.type = "GT" => last.out = gt
            /\ last.type = "LT" => last.out = lt
            /\ last.type = "GE" => last.out = (IF eq # NULL THEN eq ELSE gt)
            /\ last.type = "LE" => last.out = (IF eq # NULL THEN eq ELSE lt)

\* C8 witness: a GT lookup through the second index, for a key that is not
\* stored, in a tree of three items, has returned an item.
C8_Witness ==
    /\ last.op = "mkavl_find" /\ last.type = "GT" /\ last.key_idx = 1
    /\ Cardinality(avl_tree_array[1]) = 3
    /\ StoredEqual(1, last.item) = {}
    /\ last.out # NULL
    /\ StoredLess(1, last.item) # {}

\* C9: for every item of a steady-state tree and every index, an Equal
\* lookup returns a stored item that compares equal to it under the
\* comparator of the index; for a key equal to no stored item it returns
\* Success with null.
C9_EqualFind ==
    (last.op = "mkavl_find" /\ last.type = "EQUAL") =>
        /\ last.rc = MKAVL_RC_E_SUCCESS
        /\ StoredEqual(last.key_idx, last.item) # {}
              => last.out \in StoredEqual(last.key_idx, last.item)
        /\ StoredEqual(last.key_idx, last.item) = {} => last.out = NULL

\* C9 witness: an Equal lookup for a stored item through the second index
\* of a tree of several items has returned it.
C9_Witness ==
    /\ last.op = "mkavl_find" /\ last.type = "EQUAL" /\ last.key_idx = 1
    /\ Cardinality(avl_tree_array[1]) = 3
    /\ last.item \in avl_tree_array[1]
    /\ last.out = last.item

\* C10: after mkavl_remove_key_idx(i, x) of an item x stored in a
\* steady-state tree, an Equal lookup of x through index i returns null and
\* through every other index returns x; after mkavl_add_key_idx(i, x), x's
\* last name possibly changed in between, x is found through index i, all
\* AVL trees hold the same items again, and mkavl_count is what it was at
\* the start all along.
C10_RekeyRoundTrip ==
    /\ test.pc = "rekey_removed" =>
          /\ test.found[test.key_idx] = NULL
          /\ \A j \in KeyIdxs \ {test.key_idx} : test.found[j] = test.item
          /\ last.rc = MKAVL_RC_E_SUCCESS
          /\ mkavl_count = test.count
    /\ test.pc = "rekey_added" =>
          /\ test.found[test.key_idx] = test.item
          /\ \A j \in KeyIdxs : test.found[j] = test.item
          /\ last.rc = MKAVL_RC_E_SUCCESS /\ last.out = NULL
          /\ SteadyState
          /\ mkavl_count = test.count

\* C10 witness: an item whose last name was changed while it was out of the
\* index ordered by last name is back in that index, beside another item.
C10_Witness ==
    /\ test.pc = "rekey_added"
    /\ ReadsLastName(compare_fn_array[test.key_idx + 1])
    /\ last_name[test.item] # 1
    /\ Cardinality(avl_tree_array[test.key_idx]) = 2
    /\ mkavl_count = 2

\* C11: mkavl_add_key_idx and mkavl_remove_key_idx change only the index they
\* name: whether or not the item was found, the other AVL trees hold the
\* items they held before the call and mkavl_count is what it was.
C11_KeyIdxCallChangesOnlyItsIndex ==
    last.op \in {"mkavl_add_key_idx", "mkavl_remove_key_idx"} =>
        /\ \A j \in KeyIdxs \ {last.key_idx} :
              avl_tree_array[j] = last.trees[j]
        /\ mkavl_count = last.count

\* mkavl_remove_key_idx took a counted item out of one index of a tree
\* whose other indices hold items.
C11_Witness ==
    /\ last.op = "mkavl_remove_key_idx"
    /\ last.out # NULL
    /\ last.count > 0
    /\ avl_tree_array[last.key_idx] # last.trees[last.key_idx]
    /\ \E j \in KeyIdxs \ {last.key_idx} : avl_tree_array[j] # {}

\* Whether every AVL tree of a tree holds the same items.
SteadyTrees(trees) == \A i \in DOMAIN trees : trees[i] = trees[0]

\* The calls of the finalizer among the calls a function made.
ItemFnEvents(events) == SelectSeq(events, LAMBDA e : e.fn = "item_fn")

\* The positions of the calls of one kind among the calls a function made.
EventsOf(events, fn) == { k \in 1 .. Len(events) : events[k].fn = fn }

C13_ContextTeardownOnce ==
    (/\ last.op = "mkavl_delete"
     /\ last.rc # ABORTED
     /\ last.delete_context_fn # "NULL") =>
        LET ev == last.events
            teardown == EventsOf(ev, "delete_context_fn")
        IN  /\ Cardinality(teardown) = 1
            /\ \A k \in teardown :
                 /\ ev[k].context = test.context
                 /\ \A j \in EventsOf(ev, "item_fn") : j < k
                 /\ \A j \in EventsOf(ev, "free_fn") :
                      ev[j].block.kind # "avl_node" => k < j
                 /\ \E j \in EventsOf(ev, "free_fn") :
                      ev[j].block.kind = "mkavl_tree_st" /\ k < j

\* A tree with a null context holding items was deleted with a finalizer
\* and a context teardown.
C13_Witness ==
    /\ last.op = "mkavl_delete"
    /\ last.rc # ABORTED
    /\ last.delete_context_fn # "NULL"
    /\ test.context = NULL
    /\ EventsOf(last.events, "item_fn") # {}
    /\ EventsOf(last.events, "delete_context_fn") # {}

\* C14: when mkavl_delete has returned, every block obtained through the
\* allocator of the tree during its life (the aggregate, the index array,
\* the closures, the tables and the nodes of the AVL trees) has been
\* released through free_fn: malloc_fn and free_fn were called equally often.
C14_DeleteReleasesEveryBlock ==
    (last.op = "mkavl_delete" /\ last.rc # ABORTED) => test.heap = {}

\* C15: if mkavl_delete takes from index 0 an item that some other index
\* holds no equal of, the call aborts: it returns no status and the
\* finalizer is not called for that item.
C15_DeleteAbortsOnMissingItem ==
    last.op = "mkavl_delete" =>
        \A x \in last.trees[0] :
            (\E i \in KeyIdxs : avl_find(last.trees[i], i, x) = NULL) =>
                /\ last.rc = ABORTED
                /\ \A k \in EventsOf(last.events, "item_fn") :
                     last.events[k].item # x

\* mkavl_delete finalized an item and then aborted on one that an index
\* did not hold.
C15_Witness ==
    /\ last.op = "mkavl_delete"
    /\ last.rc = ABORTED
    /\ EventsOf(last.events, "item_fn") # {}
    /\ \E x \in last.trees[0], i \in KeyIdxs :
         avl_find(last.trees[i], i, x) = NULL

\* Whether two sequences of items have the same length and hold, position
\* by position, items that compare equal under comparator key_idx (NULL
\* only matches NULL).
EqualSequences(s, t, key_idx) ==
    /\ Len(s) = Len(t)
    /\ \A k \in 1 .. Len(s) :
         IF s[k] = NULL \/ t[k] = NULL THEN s[k] = t[k]
         ELSE EqualUnder(key_idx, s[k], t[k])

\* C16: after a successful mkavl_copy of a tree in steady state holding U
\* items (every index holds them and item_count is U), the copy function has been called exactly U times, once for each
\* item of the source; mkavl_count of the copy is mkavl_count of the source;
\* and iterating the same index of the two trees from mkavl_iter_first
\* yields equal sequences (the very same items unless the copy function
\* made new ones).
C16_CopyFidelity ==
    (/\ last.op = "mkavl_copy"
     /\ SteadyTrees(last.trees)
     /\ last.count = Cardinality(last.trees[0])
     /\ last.rc = MKAVL_RC_E_SUCCESS
     /\ test.tree_copy_h.new_tree_h # NULL) =>
        LET copy == test.tree_copy_h
            calls == EventsOf(last.events, "copy_fn")
        IN  /\ last.copy_fn # "NULL" =>
                 /\ Cardinality(calls) = Cardinality(avl_tree_array[0])
                 /\ \A e \in avl_tree_array[0] :
                      Cardinality({ k \in calls :
                                      last.events[k].item = e }) = 1
            /\ last.copy_fn = "NULL" => calls = {}
            /\ copy.item_count = mkavl_count
            /\ \A i \in KeyIdxs :
                 /\ EqualSequences(Iterate(copy.trees[i], i),
                                   Iterate(avl_tree_array[i], i), i)
                 /\ last.copy_fn \in {"NULL", "mkavl_test_copy_fn"} =>
                      Iterate(copy.trees[i], i) = Iterate(avl_tree_array[i], i)

C16_Witness ==
    /\ last.op = "mkavl_copy"
    /\ SteadyTrees(last.trees)
    /\ last.count = Cardinality(last.trees[0])
    /\ last.rc = MKAVL_RC_E_SUCCESS
    /\ test.tree_copy_h.new_tree_h # NULL
    /\ last.copy_fn = "copy_fn_duplicate"
    /\ avl_tree_count >= 2
    /\ Cardinality(avl_tree_array[0]) >= 3
    /\ Cardinality(EventsOf(last.events, "copy_fn")) >= 3

\* The items the copy function has returned.
CopiedItems(events, copy_fn) ==
    { copy_fn_item(copy_fn, events[k].item) :
        k \in EventsOf(events, "copy_fn") } \ {NULL}

\* C17: a mkavl_copy that does not produce a tree returns a non-success
\* status, has applied the finalizer of the caller to every item already
\* copied and has released every block obtained for the new tree; a
\* mkavl_copy that returns success has produced a tree.
C17_CopyFailureRollsBack ==
    last.op = "mkavl_copy" =>
        LET copy == test.tree_copy_h
        IN  /\ last.rc = MKAVL_RC_E_SUCCESS => copy.new_tree_h # NULL
            /\ last.rc # MKAVL_RC_E_SUCCESS =>
                 /\ copy.new_tree_h = NULL
                 /\ copy.heap = {}
                 /\ last.item_fn # "NULL" =>
                      \A e \in CopiedItems(last.events, last.copy_fn) :
                         \E k \in EventsOf(last.events, "item_fn") :
                            last.events[k].item = e


\* Whether a sequence of items is strictly ascending under comparator
\* key_idx.
Ascending(seq, key_idx) ==
    \A k \in 1 .. (Len(seq) - 1) :
        mkavl_compare_wrapper(key_idx, seq[k], seq[k + 1]) < 0

\* A sequence without its last element, and a sequence backwards.
Front(seq) == SubSeq(seq, 1, Len(seq) - 1)

Reverse(seq) == [k \in 1 .. Len(seq) |-> seq[Len(seq) + 1 - k]]

\* Whether comparator j is the inverse of comparator i.
InverseIndex(i, j) ==
    \A a, b \in AllItems :
        mkavl_compare_wrapper(j, a, b) = 0 - mkavl_compare_wrapper(i, a, b)

\* C18: mkavl_iter_first followed by calls of mkavl_iter_next returns items
\* of the bound index in strictly ascending order of its comparator, and
\* the null that ends them comes exactly when every item of the index has
\* been returned once; mkavl_iter_last returns the largest item; and the
\* whole sequence is the reverse of the one an iterator on an index with
\* the inverse comparator yields.
C18_IterationAscendingAndComplete ==
    test.pc = "iter" =>
        LET key_idx == test.key_idx
            tree == avl_tree_array[key_idx]
            walk == test.walk
            items == IF WalkEnded(walk) THEN Front(walk) ELSE walk
        IN  /\ \A k \in 1 .. Len(items) : items[k] \in tree
            /\ Ascending(items, key_idx)
            /\ WalkEnded(walk) =>
                 /\ { items[k] : k \in 1 .. Len(items) } = tree
                 /\ Len(items) = Cardinality(tree)
                 /\ \A j \in KeyIdxs :
                      InverseIndex(key_idx, j) =>
                          items = Reverse(Front(Iterate(avl_tree_array[j], j)))
            /\ last.op = "mkavl_iter_last" =>
                 /\ last.rc = MKAVL_RC_E_SUCCESS
                 /\ last.out = Largest(tree, key_idx)

C18_Witness ==
    /\ test.pc = "iter"
    /\ last.op = "mkavl_iter_next"
    /\ WalkEnded(test.walk)
    /\ Len(test.walk) >= 4
    /\ \E j \in KeyIdxs : InverseIndex(test.key_idx, j)

\* The item after and the item before a stored item in the order of
\* comparator key_idx, NULL if there is none.
Successor(tree, key_idx, x) ==
    Smallest({ e \in tree : mkavl_compare_wrapper(key_idx, e, x) > 0 },
             key_idx)

Predecessor(tree, key_idx, x) ==
    Largest({ e \in tree : mkavl_compare_wrapper(key_idx, e, x) < 0 },
            key_idx)

\* C19: mkavl_iter_find of a stored item returns that item with the cursor
\* on it, so the following mkavl_iter_next returns its successor; for an
\* absent item it returns success with null and the cursor is on no item,
\* so the following mkavl_iter_cur returns null.
C19_IterFindPositionsCursor ==
    test.pc = "iter" =>
        LET key_idx == test.key_idx
            tree == avl_tree_array[key_idx]
        IN  /\ last.op = "mkavl_iter_find" =>
                 /\ last.rc = MKAVL_RC_E_SUCCESS
                 /\ last.item \in tree => last.out = last.item
                 /\ (\A e \in tree :
                        mkavl_compare_wrapper(key_idx, e, last.item) # 0)
                      => last.out = NULL
                 /\ LET next == mkavl_iter_next(tree, key_idx, test.avl_node)
                        cur == mkavl_iter_cur(tree, key_idx, test.avl_node)
                    IN  /\ last.item \in tree =>
                              /\ next.rc = MKAVL_RC_E_SUCCESS
                              /\ next.item = Successor(tree, key_idx, last.item)
                              /\ cur.item = last.item
                        /\ last.out = NULL =>
                              /\ cur.rc = MKAVL_RC_E_SUCCESS
                              /\ cur.item = NULL

C19_Witness ==
    /\ test.pc = "iter"
    /\ last.op = "mkavl_iter_find"
    /\ last.item \in avl_tree_array[test.key_idx]
    /\ last.avl_node # last.item
    /\ Successor(avl_tree_array[test.key_idx], test.key_idx, last.item) # NULL

C19_WitnessAbsent ==
    /\ test.pc = "iter"
    /\ last.op = "mkavl_iter_find"
    /\ last.out = NULL
    /\ last.avl_node # NULL

\* C20: mkavl_iter_cur returns the item the cursor is on and leaves the
\* cursor there; mkavl_iter_prev from a cursor on an item returns the item
\* before it in the index order, null from the smallest item.
C20_IterCurAndPrev ==
    test.pc = "iter" =>
        LET key_idx == test.key_idx
            tree == avl_tree_array[key_idx]
        IN  /\ last.op = "mkavl_iter_cur" =>
                 /\ last.rc = MKAVL_RC_E_SUCCESS
                 /\ last.out = last.avl_node
                 /\ test.avl_node = last.avl_node
                 /\ mkavl_iter_cur(tree, key_idx, test.avl_node).item
                      = last.out
            /\ (last.op = "mkavl_iter_prev" /\ last.avl_node # NULL) =>
                 /\ last.rc = MKAVL_RC_E_SUCCESS
                 /\ last.out = Predecessor(tree, key_idx, last.avl_node)
                 /\ last.avl_node = Smallest(tree, key_idx)
                      => last.out = NULL
                 /\ last.out # NULL =>
                      PositionOf(tree, key_idx, last.out) + 1
                          = PositionOf(tree, key_idx, last.avl_node)

C20_Witness ==
    /\ test.pc = "iter"
    /\ last.op = "mkavl_iter_prev"
    /\ last.avl_node # NULL
    /\ last.out # NULL
    /\ Cardinality(avl_tree_array[test.key_idx]) >= 3

C20_WitnessSmallest ==
    /\ test.pc = "iter"
    /\ last.op = "mkavl_iter_prev"
    /\ last.avl_node # NULL
    /\ last.avl_node = Smallest(avl_tree_array[test.key_idx], test.key_idx)
    /\ last.out = NULL

\* The items the callback of a walk was called with, in the order of the
\* calls.
WalkedItems(events) == [k \in 1 .. Len(events) |-> events[k].item]

\* The call of a walk over U items on which the callback first sets the
\* stop flag or fails, 0 if it does neither.
HaltingCall(stop_at, notok_at, U) ==
    LET halts == { n \in {stop_at, notok_at} : n \in 1 .. U }
    IN  IF halts = {} THEN 0
        ELSE CHOOSE n \in halts : \A m \in halts : n <= m

\* C21: a mkavl_walk whose callback returns success and leaves the stop
\* flag alone on every call calls it exactly once for every item of index
\* 0, in ascending order of index 0, with the context of the tree and the
\* walk context of the caller, and returns success; on an empty tree it
\* calls nothing and returns success.
C21_WalkVisitsEveryItemInOrder ==
    (/\ last.op = "mkavl_walk"
     /\ HaltingCall(last.stop_at, last.notok_at,
                    Cardinality(avl_tree_array[0])) = 0) =>
        LET items == WalkedItems(last.events)
        IN  /\ last.rc = MKAVL_RC_E_SUCCESS
            /\ Len(items) = Cardinality(avl_tree_array[0])
            /\ { items[k] : k \in 1 .. Len(items) } = avl_tree_array[0]
            /\ Ascending(items, 0)
            /\ \A k \in 1 .. Len(items) :
                 /\ last.events[k].context = test.context
                 /\ last.events[k].walk_context = last.walk_context

C21_Witness ==
    /\ last.op = "mkavl_walk"
    /\ last.stop_at = 0
    /\ last.notok_at = 0
    /\ Len(last.events) >= 3
    /\ avl_tree_count >= 2
    /\ test.context # NULL
    /\ last.walk_context # NULL

C21_WitnessEmpty ==
    /\ last.op = "mkavl_walk"
    /\ avl_tree_array[0] = {}
    /\ last.events = << >>

\* C22: a mkavl_walk halts at the first call of the callback that sets the
\* stop flag or returns a failure: the calls made are that one and the
\* ones before it, on the smallest items of index 0 in ascending order, and
\* the walk returns what that call returned.
C22_WalkHaltsAtFirstStopOrFailure ==
    last.op = "mkavl_walk" =>
        LET n == HaltingCall(last.stop_at, last.notok_at,
                             Cardinality(avl_tree_array[0]))
            items == WalkedItems(last.events)
        IN  n # 0 =>
              /\ Len(items) = n
              /\ Ascending(items, 0)
              /\ \A k \in 1 .. n : items[k] \in avl_tree_array[0]
              /\ \A e \in avl_tree_array[0] :
                   (\A k \in 1 .. n : items[k] # e) =>
                       mkavl_compare_wrapper(0, items[n], e) < 0
              /\ last.rc = walk_cb_fn(n, last.stop_at, last.notok_at).rc

C22_Witness ==
    /\ last.op = "mkavl_walk"
    /\ last.stop_at = 2
    /\ last.notok_at = 0
    /\ Cardinality(avl_tree_array[0]) >= 4
    /\ Len(last.events) = 2

C22_WitnessFailure ==
    /\ last.op = "mkavl_walk"
    /\ last.notok_at = 2
    /\ last.stop_at = 3
    /\ Cardinality(avl_tree_array[0]) >= 4
    /\ last.rc = MKAVL_RC_E_EINVAL

\* The results the callbacks of a mkavl_delete returned: one per call of
\* the finalizer and one for the call of the teardown.
DeleteResults(events, item_fn, context) ==
    { item_fn_rc(item_fn, events[k].item) : k \in EventsOf(events, "item_fn") }
    \cup { mkavl_test_delete_context(context) :
             k \in EventsOf(events, "delete_context_fn") }

C24_NewFailureReleasesEverything ==
    (/\ last.op = "mkavl_new_call"
     /\ last.rc = MKAVL_RC_E_ENOMEM
     /\ last.fail_at # 0
     /\ (last.fail_at \in {1, 2} \/ last.null_fn = -1)) =>
        test.heap = {}

\* C25: when mkavl_new fails and was given a handle-out pointer, the handle
\* is null on return, whatever it held before.
C25_NewFailureNullsHandle ==
    (/\ last.op = "mkavl_new_call"
     /\ last.has_tree_h
     /\ last.rc # MKAVL_RC_E_SUCCESS) =>
        test.tree_h = NULL

\* C26: when mkavl_copy fails, a teardown callback that was given has been
\* called exactly once, with new_context, if use_source_context is false,
\* and it has never been called with the context of the source tree.
C26_CopyFailureTearsDownNewContext ==
    (/\ last.op = "mkavl_copy"
     /\ last.rc # MKAVL_RC_E_SUCCESS
     /\ last.delete_context_fn # "NULL") =>
        LET calls == EventsOf(last.events, "delete_context_fn")
        IN  /\ ~last.use_source_context =>
                 Cardinality({ k \in calls :
                                 last.events[k].context = NewContext }) = 1
            /\ \A k \in calls : last.events[k].context # test.context

\* The calls of C29 that return a code.
C29_Calls ==
    {"mkavl_add", "mkavl_remove", "mkavl_find", "mkavl_walk",
     "mkavl_iter_new", "mkavl_delete"}

\* C29: after a mkavl_delete that succeeds, on an empty tree as on any
\* other, the handle of the caller is null; a later mkavl_count on that
\* handle returns 0, and a later mkavl_add, mkavl_remove, mkavl_find,
\* mkavl_walk, mkavl_iter_new or mkavl_delete on it returns InvalidArgument.
C29_DeletedHandleIsInvalid ==
    /\ (/\ last.op = "mkavl_delete"
        /\ ~last.deleted
        /\ last.pointer # NullPointer
        /\ last.rc = MKAVL_RC_E_SUCCESS)
       => (last.out = NULL /\ test.tree_h = NULL /\ test.deleted)
    /\ (test.pc = "args" /\ last.op # "mkavl_new" /\ last.deleted
        /\ test.delete_rc = MKAVL_RC_E_SUCCESS)
       => /\ test.tree_h = NULL
          /\ (last.op = "mkavl_count" /\ last.tree_h = test.tree_h)
             => last.out = 0
          /\ (last.op \in C29_Calls /\ last.tree_h = test.tree_h)
             => last.rc = MKAVL_RC_E_EINVAL

\* A tree with items was deleted with success, and a mkavl_add of an item
\* through the handle, with an out-pointer, was then refused.
C29_Witness ==
    /\ test.pc = "args"
    /\ last.op = "mkavl_add"
    /\ last.deleted
    /\ test.delete_rc = MKAVL_RC_E_SUCCESS
    /\ test.destroyed # {}
    /\ last.tree_h = NULL
    /\ last.item # NULL
    /\ last.pointer # NullPointer
    /\ last.rc = MKAVL_RC_E_EINVAL

\* An empty tree was deleted with success.
C29_WitnessEmpty ==
    /\ test.pc = "args"
    /\ last.op = "mkavl_delete"
    /\ ~last.deleted
    /\ last.count = 0
    /\ last.rc = MKAVL_RC_E_SUCCESS
    /\ test.tree_h = NULL

\* The calls of C28, and the arguments of a call that C28 names: a null
\* tree, a null item or key, a key index that is not below the number of
\* AVL trees, a find type that is no lookup, and for mkavl_add a null
\* out-pointer.
C28_Calls ==
    {"mkavl_find", "mkavl_add_key_idx", "mkavl_remove_key_idx", "mkavl_add"}

C28_BadArguments ==
    \/ last.tree_h = NULL
    \/ last.item = NULL
    \/ last.op # "mkavl_add" /\ last.key_idx >= avl_tree_count
    \/ last.op = "mkavl_find" /\ last.type \notin FindTypes
    \/ last.op = "mkavl_add" /\ last.pointer = NullPointer

\* C28: mkavl_find, mkavl_add_key_idx, mkavl_remove_key_idx and mkavl_add
\* given such an argument return InvalidArgument, leave the tree as it was,
\* and leave null in the variable behind an out-pointer that is not null.
C28_BadArgumentsRejected ==
    (test.pc = "args" /\ last.op \in C28_Calls /\ C28_BadArguments)
    => /\ last.rc = MKAVL_RC_E_EINVAL
       /\ avl_tree_array = last.trees
       /\ item_count = last.count
       /\ last.pointer # NullPointer => last.out = NULL

\* The calls on an iterator.
C27_Calls == IterOps \cup {"mkavl_iter_delete"}

\* C27: a call on an iterator that is null, or whose tree has been
\* deleted, returns InvalidArgument, leaves null in the variable behind its
\* out-pointer, and leaves the traverser where it was.  The item
\* mkavl_iter_find is to look up is not null.
C27_InvalidIteratorRejected ==
    (/\ test.pc = "args"
     /\ last.op \in C27_Calls
     /\ last.op = "mkavl_iter_find" => last.item # NULL
     /\ last.iterator_h = NULL \/ last.deleted)
    => /\ last.rc = MKAVL_RC_E_EINVAL
       /\ test.avl_node = last.avl_node
       /\ (last.op \in IterOps /\ last.pointer # NullPointer)
          => last.out = NULL

\* Every AVL tree held an item equal to the one the last call was given.
C30_EqualItemStored ==
    \A i \in KeyIdxs : avl_find(last.trees[i], i, last.item) # NULL

\* C30: a mkavl_add of an item when every AVL tree already holds an equal
\* item changes nothing: every AVL tree holds the objects it held, the
\* stored item is not replaced by item_to_add, and item_count is what it
\* was.  When the AVL trees agree on the stored item the call returns
\* Success with that item as existing_item.
C30_DuplicateAddChangesNothing ==
    (last.op = "mkavl_add" /\ C30_EqualItemStored)
    => /\ avl_tree_array = last.trees
       /\ item_count = last.count
       /\ (\A i \in KeyIdxs :
              avl_find(last.trees[i], i, last.item) =
              avl_find(last.trees[0], 0, last.item))
          => /\ last.rc = MKAVL_RC_E_SUCCESS
             /\ last.out = avl_find(last.trees[0], 0, last.item)

\* A mkavl_add of an object that is not stored itself, while another
\* object equal to it is stored in every AVL tree of a tree with two or
\* more of them.
C30_Witness ==
    /\ last.op = "mkavl_add"
    /\ avl_tree_count >= 2
    /\ C30_EqualItemStored
    /\ \A i \in KeyIdxs : last.item \notin last.trees[i]
    /\ last.rc = MKAVL_RC_E_SUCCESS
    /\ last.out # last.item
    /\ last.out \in avl_tree_array[0]

\* The items of AVL tree key_idx that do not compare below item, in
\* ascending order.
ItemsFrom(tree, key_idx, item) ==
    SelectSeq(SortedItems(tree, key_idx),
              LAMBDA x : mkavl_compare_wrapper(key_idx, x, item) >= 0)

\* The scan has found a front part of the items at or after lookup_item,
\* in ascending order, and all of them once it has reached null.
C31_ScanInOrder ==
    (test.pc = "scan" /\ test.started)
    => LET items == ItemsFrom(avl_tree_array[test.key_idx], test.key_idx,
                              test.lookup_item)
       IN  /\ Len(test.found) <= Len(items)
           /\ test.found = SubSeq(items, 1, Len(test.found))
           /\ test.cur_item = NULL => test.found = items
           /\ test.cur_item # NULL => test.cur_item = test.found[Len(test.found)]

\* The scan has reached a null result.
C31_ScanEnded == test.pc = "scan" /\ test.started /\ test.cur_item = NULL

\* C31: mkavl_find GE of an item and then mkavl_find GT of each item found
\* visits exactly the items of the index that are not below the item
\* looked up, each once and in ascending order, and reaches a null result
\* after finitely many lookups.
C31_ScanVisitsItemsFrom == []C31_ScanInOrder /\ <>C31_ScanEnded

\* A scan that started inside the index has found two items or more, not
\* all the items of the index, and has ended.
C31_Witness ==
    /\ C31_ScanEnded
    /\ Len(test.found) >= 2
    /\ Len(test.found) < Cardinality(avl_tree_array[test.key_idx])
    /\ last.type = "GT"

\* Item x is missing from AVL tree k only, as mkavl_remove_key_idx(k, x)
\* leaves a tree in steady state: the other AVL trees hold x, all hold the
\* same other items, and the count still counts x.
C32_Missing(trees, count, k, x) ==
    /\ x # NULL
    /\ x \notin trees[k]
    /\ \A i \in KeyIdxs :
          /\ trees[i] \ {x} = trees[k]
          /\ i # k => x \in trees[i]
    /\ count = Cardinality(trees[k]) + 1

\* Item y is new: it compares equal to no stored item, and not to x, under
\* any comparator.
C32_New(trees, x, y) ==
    \A i \in KeyIdxs :
       \A e \in trees[i] \cup {x} : mkavl_compare_wrapper(i, e, y) # 0

\* The caller has added a new item to its tree while the item it took out
\* was missing from one AVL tree.
C32_AddedWhileMissing ==
    /\ test.pc = "my_malloc"
    /\ test.step \in {"added", "done"}
    /\ C32_Missing(test.add.trees, test.add.count, test.key_idx, test.cur_item)
    /\ C32_New(test.add.trees, test.cur_item, test.add.item)

\* C32: while an item x is missing from exactly one index k, mkavl_add of
\* a new item returns Success with null, inserts it into all indices and
\* increments the count once; after the following mkavl_add_key_idx(k, x)
\* all indices hold the same items and the count is their number.
C32_AddDuringRekey ==
    C32_AddedWhileMissing
    => /\ test.add.rc = MKAVL_RC_E_SUCCESS
       /\ test.add.out = NULL
       /\ test.step = "added"
          => /\ \A i \in KeyIdxs :
                   avl_tree_array[i] = test.add.trees[i] \cup {test.add.item}
             /\ item_count = test.add.count + 1
       /\ test.step = "done"
          => /\ \A i \in KeyIdxs :
                   avl_tree_array[i] =
                       test.add.trees[test.key_idx]
                           \cup {test.add.item, test.cur_item}
             /\ item_count = Cardinality(avl_tree_array[test.key_idx])
             /\ last.rc = MKAVL_RC_E_SUCCESS

\* In a tree with two or more indices and other items, a new item was
\* added while an item was missing from one index, and the item has been
\* put back.
C32_Witness ==
    /\ C32_AddedWhileMissing
    /\ test.step = "done"
    /\ avl_tree_count >= 2
    /\ Cardinality(avl_tree_array[0]) >= 3

\* C33: for a steady-state tree of N items the loop of mkavl_delete makes
\* exactly N passes, each one removing one item, and ends; it never
\* aborts, for any N.
C33_RunawayGuardNeverFires ==
    test.pc = "runaway"
    => /\ test.loop # "aborted"
       /\ test.runaway_counter + item_count = test.node_cnt
       /\ test.loop = "ended" => test.runaway_counter = test.node_cnt

\* C34: mkavl_new returns NoMemory only when a call to malloc_fn returned
\* null; every fault in its arguments, a null entry of the comparator array
\* among them, gives InvalidArgument.  fail_at is the call of malloc_fn
\* that fails, 0 for none; a call after the one mkavl_new stopped at was
\* never made.
C34_NoMemoryOnlyWhenAllocationFailed ==
    (test.pc = "new" /\ last.op = "mkavl_new_call")
    => LET asked == Cardinality({n \in 1 .. Len(last.events) :
                                    last.events[n].fn = "malloc_fn"})
           invalid == mkavl_new_args_invalid(last.has_tree_h,
                          last.has_compare_fn_array,
                          last.compare_fn_array_count)
           failed == ~invalid /\ last.fail_at = asked + 1
           fault == invalid \/ last.null_fn # -1
       IN  /\ last.rc = MKAVL_RC_E_ENOMEM => failed
           /\ (fault /\ ~failed) => last.rc = MKAVL_RC_E_EINVAL

\* C35: after a successful mkavl_copy every AVL tree of the new tree
\* compares through the closure of the new tree: comparator i is called
\* with the context of the new tree, and no AVL tree of the new tree refers
\* to the source tree or to a closure of it.
C35_CopyComparesThroughOwnClosure ==
    (test.pc = "copy" /\ last.op = "mkavl_copy"
     /\ last.rc = MKAVL_RC_E_SUCCESS)
    => \A i \in KeyIdxs :
          LET c == mkavl_compare_context(last.avl_params[i], last.context,
                                         test.tree_copy_h.context)
          IN  /\ last.avl_params[i] = mkavl_avl_ctx("local_tree_h", i)
              /\ c.key_idx = i
              /\ c.context = test.tree_copy_h.context

\* C36: mkavl_remove takes no item out without accounting for it: when the
\* item is found in every AVL tree while item_count is 0, the call returns
\* OutOfSync and every AVL tree holds the item afterwards as it did before.
C36_RemoveAtCountZeroKeepsItem ==
    (test.pc = "none" /\ last.op = "mkavl_remove" /\ last.count = 0
     /\ \A i \in KeyIdxs : avl_find(last.trees[i], i, last.item) # NULL)
    => /\ last.rc = MKAVL_RC_E_EOOSYNC
       /\ item_count = 0
       /\ \A i \in KeyIdxs :
             avl_find(avl_tree_array[i], i, last.item)
                 = avl_find(last.trees[i], i, last.item)

\* C37: every item an AVL tree of the tree holds when mkavl_delete is
\* called, in AVL tree 0 or in another one only, is passed to the finalizer
\* exactly once, unless the call aborts.
C37_DeleteFinalizesEveryStoredItem ==
    (/\ test.pc = "life"
     /\ last.op = "mkavl_delete"
     /\ last.item_fn # "NULL"
     /\ last.rc # ABORTED) =>
        \A e \in UNION { last.trees[i] : i \in KeyIdxs } :
           Cardinality({ k \in EventsOf(last.events, "item_fn") :
                           last.events[k].item = e }) = 1

\* C38: mkavl_copy, whether it gives a new tree or not, leaves the source
\* tree as it was: the items of every AVL tree, item_count, the context and
\* the stored copy_fn are the same after the call as before it.
C38_CopyLeavesSourceUnchanged ==
    (test.pc = "copy" /\ last.op = "mkavl_copy")
    => /\ \A i \in KeyIdxs : avl_tree_array[i] = last.trees[i]
       /\ item_count = last.count
       /\ test.context = last.context
       /\ test.copy_fn = last.old_copy_fn

C38_Witness ==
    /\ test.pc = "copy"
    /\ last.op = "mkavl_copy"
    /\ last.copy_fn = "copy_fn_notok"
    /\ test.tree_copy_h.new_tree_h = NULL
    /\ EventsOf(last.events, "copy_fn") # {}
    /\ avl_tree_count >= 2
    /\ \E i \in KeyIdxs : avl_tree_array[i] # avl_tree_array[0]
    /\ test.copy_fn = "NULL"

C38_WitnessCopied ==
    /\ test.pc = "copy"
    /\ last.op = "mkavl_copy"
    /\ last.copy_fn = "copy_fn_duplicate"
    /\ test.tree_copy_h.new_tree_h # NULL
    /\ test.tree_copy_h.trees[0] # {}
    /\ test.tree_copy_h.trees[0] \cap avl_tree_array[0] = {}

\* The items avl_copy produces from the items of a source table.
ProducedItems(tree, copy_fn) ==
    IF copy_fn = "NULL" THEN tree
    ELSE { copy_fn_item(copy_fn, e) : e \in tree }

\* C39: whatever state the source tree is in, steady or as single-index
\* operations left it, a mkavl_copy that gives a new tree gives one in
\* steady state: every AVL tree of it holds exactly the items produced from
\* AVL tree 0 of the source, and its item_count is their number.
C39_CopyIsSteady ==
    (/\ test.pc = "copy"
     /\ last.op = "mkavl_copy"
     /\ last.rc = MKAVL_RC_E_SUCCESS
     /\ test.tree_copy_h.new_tree_h # NULL) =>
        LET copy == test.tree_copy_h
            produced == ProducedItems(last.trees[0], last.copy_fn)
        IN  /\ \A i \in KeyIdxs : copy.trees[i] = produced
            /\ copy.item_count = Cardinality(produced)

\* The source lacks in AVL tree 0 an item its other AVL trees hold, and is
\* copied with a copy function that makes new objects.
C39_Witness ==
    /\ test.pc = "copy"
    /\ last.op = "mkavl_copy"
    /\ last.rc = MKAVL_RC_E_SUCCESS
    /\ test.tree_copy_h.new_tree_h # NULL
    /\ last.copy_fn = "copy_fn_duplicate"
    /\ avl_tree_count >= 2
    /\ last.trees[0] # {}
    /\ last.trees[0] # last.trees[1]
    /\ last.count # Cardinality(last.trees[0])
    /\ test.tree_copy_h.item_count = Cardinality(last.trees[0])

\* The source lacks in another AVL tree an item AVL tree 0 holds.
C39_WitnessOther ==
    /\ test.pc = "copy"
    /\ last.op = "mkavl_copy"
    /\ test.tree_copy_h.new_tree_h # NULL
    /\ avl_tree_count >= 2
    /\ \E e \in last.trees[0] :
         e \notin last.trees[1] /\ e \in test.tree_copy_h.trees[1]

\* What mkavl_find of the given type returns for item x on the AVL tree of
\* the iterator, for every root the AVL tree may have.
FindsOnly(type, x, item) ==
    \A avl_root \in AvlRoots(avl_tree_array[test.key_idx], test.key_idx) :
       mkavl_find(avl_tree_array, avl_root, type, test.key_idx, x) = item

\* C40: the iterator and the directional search agree: for an item x
\* stored in the index, mkavl_iter_find of x followed by mkavl_iter_next
\* returns what mkavl_find with type GT returns for x, and mkavl_iter_find
\* of x followed by mkavl_iter_prev returns what mkavl_find with type LT
\* returns for x.
C40_IteratorAgreesWithFind ==
    [][(/\ test.pc = "iter"
        /\ last.op = "mkavl_iter_find"
        /\ last.out # NULL)
       => /\ last'.op = "mkavl_iter_next"
               => /\ last'.rc = MKAVL_RC_E_SUCCESS
                  /\ FindsOnly("GT", last.item, last'.out)
          /\ last'.op = "mkavl_iter_prev"
               => /\ last'.rc = MKAVL_RC_E_SUCCESS
                  /\ FindsOnly("LT", last.item, last'.out)]_vars

\* mkavl_iter_next or mkavl_iter_prev has returned an item from a cursor
\* on an item that has items on both sides.
C40_Witness ==
    /\ test.pc = "iter"
    /\ last.op \in {"mkavl_iter_next", "mkavl_iter_prev"}
    /\ last.avl_node # NULL
    /\ last.out # NULL
    /\ FindsOnly(IF last.op = "mkavl_iter_next" THEN "GT" ELSE "LT",
                 last.avl_node, last.out)
    /\ ~FindsOnly("GT", last.avl_node, NULL)
    /\ ~FindsOnly("LT", last.avl_node, NULL)
    /\ Cardinality(AvlRoots(avl_tree_array[test.key_idx], test.key_idx)) >= 2
====
